---- MODULE Spec2Model ----
(***************************************************************************)
(* The worker shell shared by the LLM worker, the history worker and the   *)
(* memory worker of scalable-ai-chat (receive loop, semaphore, processing  *)
(* tasks, settlement, shutdown), and the LLM worker's processing of one    *)
(* chat request (cache read, token streaming, cache update, completion     *)
(* event).  One behaviour runs one worker; kind says which.                *)
(***************************************************************************)
EXTENDS Integers, Sequences, FiniteSets, TLC

\* ---- bounds of the model
\* receives that return a message in one run (and so the messages published)
MaxDeliveries == 2
\* content chunks of one LLM stream
MaxChunks == 1
\* largest MAX_CONCURRENCY a run is started with
MaxConcurrency == 2

Kinds == {"llm", "history", "memory"}
Sessions == {"s1", "s2"}
Users == {"u1", "u2"}
Ids == 1..MaxDeliveries

\* The bus messages a run may hold: chat requests (user-messages) for the LLM
\* worker, completion events (message-completed) for the other two.  valid
\* is FALSE when a required field of the body is missing.
RequestShapes ==
  { [sessionId |-> "s1", userId |-> "u1", valid |-> TRUE],
    [sessionId |-> "s1", userId |-> "u2", valid |-> TRUE],
    [sessionId |-> "s2", userId |-> "u1", valid |-> TRUE],
    [sessionId |-> "s1", userId |-> "u1", valid |-> FALSE] }

\* Sessions and users are interchangeable: the first message published is one
\* of user u1 on session s1.
ShapesAt(k) == IF k = 1 THEN { r \in RequestShapes : r.sessionId = "s1" /\ r.userId = "u1" }
               ELSE RequestShapes

VARIABLES
  kind,          \* which worker this process is
  MAX_CONCURRENCY, \* its concurrency budget, read from the environment at start
  queue,         \* the input subscription: the messages delivered so far, in publish order
  st,            \* bus state of each message: avail, locked, done
  cache,         \* the session cache: session:{sessionId} -> conversation
  completedLog,  \* the message-completed topic: chatMessageIds in publish order
  shutdown,      \* shutdown_event
  connected,     \* the bus client and the receiver are open
  permits,       \* value of the semaphore
  loopPc,        \* position of main()
  cur,           \* the message main() holds after a receive (0: none)
  pc,            \* position of each message's processing task
  loc,           \* locals of each processing task
  ev,            \* what the current attempt of each message has published
  calls,         \* settlement calls made for the current delivery of each message
  late,          \* messages whose receive returned after the shutdown signal
  deliveries,    \* receives that returned a message so far
  stored,        \* completion events whose processing upserted its store document
  job,           \* history and memory worker: locals of each message's processing, step by step
  docs,          \* the history container of the document store
  convMem,       \* the conversations container of the memory store
  userMem,       \* the user-memories container of the memory store
  intended,      \* LLM worker: the tool calls the model emits, by index
  stream,        \* the tool-call deltas it streams them in
  pos,           \* how many of them the chunk loop has consumed
  function_calls, \* the tool calls it has accumulated, by index
  toolPc,        \* where the turn is once the first stream has ended with tool calls
  nextCall,      \* the place in function_calls_list of the next call to execute
  messages,      \* what the tool loop has appended to the messages of the follow-up
  completion,    \* history worker: what the title completion returned
  generated_title, \* the title generate_conversation_title makes of it
  sender_pool,   \* ingress: the queue of pooled bus senders
  lock,          \* the request that holds the lock of each sender, or 0
  handler        \* each chat request: where its handler is, the sender it took

storeVars == << job, docs, convMem, userMem >>
streamVars == << intended, stream, pos, function_calls, toolPc, nextCall, messages >>
titleVars == << completion, generated_title >>
\* the variables of the functions that are checked on their own
poolVars == << sender_pool, lock, handler >>
pureVars == << streamVars, titleVars, poolVars >>

vars == << kind, MAX_CONCURRENCY, queue, st, cache, completedLog, shutdown, connected, permits,
           loopPc, cur, pc, loc, ev, calls, late, deliveries, stored, storeVars, pureVars >>

busVars == << queue, st >>
loopVars == << loopPc, cur >>
taskVars == << pc, loc, ev >>

\* ------------------------------------------------------------------------
\* Data
\* ------------------------------------------------------------------------

NoEntry == [present |-> FALSE, userId |-> "-", messages |-> << >>]

Msg(id, role, u) == [id |-> id, role |-> role, u |-> u]

NoLocals ==
  [ hasSys |-> FALSE, sysContent |-> FALSE, messages |-> << >>, sawOther |-> FALSE,
    conv |-> NoEntry, raised |-> FALSE, cancelled |-> FALSE,
    holds |-> FALSE, stale |-> FALSE ]

Published == 1..Len(queue)

Live(m) == pc[m] # "none"

ActiveTasks == { m \in Published : Live(m) }

\* The messages the broker delivers again: abandoned ones, and locked ones
\* whose lock expires, once no task and no loop holds them any more.
Avail ==
  { m \in Published : st[m] \in {"avail", "locked"} /\ pc[m] = "none" /\ cur # m }

FirstAvail == CHOOSE m \in Avail : \A n \in Avail : m <= n

\* Leaving the two "async with" blocks of main() closes the receiver and the bus
\* client that the tasks created under them were given.
Closed(l) == [m \in Ids |-> IF pc[m] # "none" THEN [l[m] EXCEPT !.stale = TRUE] ELSE l[m]]

\* ------------------------------------------------------------------------
\* Init
\* ------------------------------------------------------------------------

\* The locals of a processing of the history or the memory worker before it
\* has done anything.
NoJob ==
  [ conv |-> NoEntry, title |-> << >>, now |-> 0, attempts |-> 0,
    updates |-> << >>, existing_doc |-> << >>,
    upserted |-> FALSE, raised |-> FALSE ]

\* Nothing stored, no processing under way.
StoreIdle ==
  /\ job = [m \in Ids |-> NoJob]
  /\ docs = {}
  /\ convMem = {}
  /\ userMem = {}

\* No title under way.
TitleIdle ==
  /\ completion = [ok |-> FALSE, content |-> << >>]
  /\ generated_title = << >>

\* No ingress: no sender pooled, no request.
PoolIdle ==
  /\ sender_pool = << >>
  /\ lock = << >>
  /\ handler = << >>

\* No streamed completion under way.
StreamIdle ==
  /\ intended = << >>
  /\ stream = << >>
  /\ pos = 0
  /\ function_calls = << >>
  /\ toolPc = "idle"
  /\ nextCall = 0
  /\ messages = << >>

\* A conversation the LLM worker leaves in the cache after one turn.
StoredTurn(s, u) ==
  [present |-> TRUE, userId |-> u,
   messages |-> << Msg(0, "system", u), Msg(0, "user", u), Msg(0, "assistant", u) >>]

Init ==
  /\ kind \in Kinds
  /\ MAX_CONCURRENCY \in 1..MaxConcurrency
  /\ queue = << >>
  /\ st = [m \in Ids |-> "avail"]
  /\ IF kind = "llm"
       THEN cache = [s \in Sessions |-> NoEntry]
       ELSE cache \in { [s \in Sessions |-> NoEntry],
                         [s \in Sessions |-> IF s = "s1" THEN StoredTurn("s1", "u1") ELSE NoEntry] }
  /\ completedLog = << >>
  /\ shutdown = FALSE
  /\ connected = FALSE
  /\ permits = MAX_CONCURRENCY
  /\ loopPc = "connect"
  /\ cur = 0
  /\ pc = [m \in Ids |-> "none"]
  /\ loc = [m \in Ids |-> NoLocals]
  /\ ev = [m \in Ids |-> << >>]
  /\ calls = [m \in Ids |-> {}]
  /\ late = {}
  /\ deliveries = 0
  /\ stored = {}
  /\ StoreIdle
  /\ StreamIdle
  /\ TitleIdle
  /\ PoolIdle

\* ------------------------------------------------------------------------
\* main(): connection loop, receive loop, dispatch
\* ------------------------------------------------------------------------

\* The OS signal handler sets shutdown_event.
Signal ==
  /\ ~shutdown
  /\ loopPc # "stopped"
  /\ shutdown' = TRUE
  /\ UNCHANGED << storeVars, pureVars, kind, MAX_CONCURRENCY, busVars, cache, completedLog, connected, permits,
                  loopVars, taskVars, calls, late, deliveries, stored >>

\* The LLM worker's inner loop tests shutdown_event before each receive; the
\* other two iterate the receiver with no test of their own.
StopsBeforeReceive(k, sd) == k = "llm" /\ sd

\* while not shutdown_event.is_set(): async with ServiceBusClient ... receiver
LoopConnect ==
  /\ loopPc = "connect"
  /\ IF shutdown
       THEN loopPc' = "drain" /\ UNCHANGED connected
       ELSE loopPc' = "recv" /\ connected' = TRUE
  /\ UNCHANGED << storeVars, pureVars, kind, MAX_CONCURRENCY, busVars, cache, completedLog, shutdown, permits, cur,
                  taskVars, calls, late, deliveries, stored >>

\* The receive returns a message, locked for this receiver: the oldest one the
\* broker can deliver again, else the next one published.
Receive(m) ==
  /\ st' = [st EXCEPT ![m] = "locked"]
  /\ cur' = m
  /\ calls' = [calls EXCEPT ![m] = {}]
  /\ late' = IF shutdown THEN late \cup {m} ELSE late \ {m}
  /\ loopPc' = "check"

LoopReceive ==
  /\ loopPc = "recv"
  /\ deliveries < MaxDeliveries
  /\ deliveries' = deliveries + 1
  /\ IF Avail # {}
       THEN Receive(FirstAvail) /\ UNCHANGED queue
       ELSE /\ \E r \in ShapesAt(Len(queue) + 1) : queue' = Append(queue, r)
            /\ Receive(Len(queue) + 1)
  /\ UNCHANGED << storeVars, pureVars, kind, MAX_CONCURRENCY, cache, completedLog, shutdown, connected, permits,
                  taskVars, stored >>

\* No message for this receiver within the wait time.  The LLM worker's receive
\* returns empty and its loop tests shutdown_event again; the other workers'
\* iteration of the receiver ends, the receiver and the client are closed and
\* the connection loop starts again.
LoopIdle ==
  /\ loopPc = "recv"
  /\ IF kind = "llm"
       THEN /\ shutdown
            /\ loopPc' = "drain"
       ELSE loopPc' = "connect"
  /\ connected' = FALSE
  /\ loc' = Closed(loc)
  /\ UNCHANGED << storeVars, pureVars, kind, MAX_CONCURRENCY, busVars, cache, completedLog, shutdown, permits, cur,
                  pc, ev, calls, late, deliveries, stored >>

\* The receive raises (connection lost): both context managers exit, and the
\* handler of the connection loop leaves when shutting down, else retries.
LoopConnectionError ==
  /\ loopPc = "recv"
  /\ connected' = FALSE
  /\ loc' = Closed(loc)
  /\ loopPc' = IF shutdown THEN "drain" ELSE "connect"
  /\ UNCHANGED << storeVars, pureVars, kind, MAX_CONCURRENCY, busVars, cache, completedLog, shutdown, permits, cur,
                  pc, ev, calls, late, deliveries, stored >>

\* A loop with no test of shutdown_event after its receive.
AcceptsNew_Always(sd) == TRUE

\* if shutdown_event.is_set(): abandon the received message and break
AcceptsNew(sd) == ~sd

\* What a settlement call leaves of the message's bus state.
Settled(op, ok, old) ==
  IF ~ok THEN old ELSE IF op = "complete" THEN "done" ELSE "avail"

\* create_task(_process_and_handle_message(...)); the LLM worker has taken the
\* permit for it, the other workers' tasks take it themselves.  The loop then
\* goes on to its next receive, or leaves when its test of shutdown_event says so.
Dispatch(m) ==
  /\ pc' = [pc EXCEPT ![m] = IF kind = "llm" THEN "start" ELSE "wait"]
  /\ cur' = 0
  /\ IF StopsBeforeReceive(kind, shutdown)
       THEN /\ loopPc' = "drain" /\ connected' = FALSE
            /\ loc' = [n \in Ids |-> IF n = m THEN [NoLocals EXCEPT !.holds = kind = "llm", !.stale = TRUE]
                                     ELSE Closed(loc)[n]]
       ELSE /\ loopPc' = "recv" /\ UNCHANGED connected
            /\ loc' = [loc EXCEPT ![m] = [NoLocals EXCEPT !.holds = kind = "llm"]]

LoopCheck ==
  /\ loopPc = "check"
  /\ IF AcceptsNew(shutdown)
       THEN /\ IF kind = "llm"
                 THEN IF permits > 0
                        THEN permits' = permits - 1 /\ Dispatch(cur)
                        ELSE loopPc' = "acquire" /\ UNCHANGED << cur, pc, loc, permits, connected >>
                 ELSE Dispatch(cur) /\ UNCHANGED permits
            /\ UNCHANGED << st, calls >>
       ELSE /\ \E ok \in BOOLEAN : st' = [st EXCEPT ![cur] = Settled("abandon", ok, @)]
            /\ calls' = [calls EXCEPT ![cur] = @ \cup {<<"abandon", "loop">>}]
            /\ cur' = 0
            /\ connected' = FALSE
            /\ loc' = Closed(loc)
            /\ loopPc' = "drain"
            /\ UNCHANGED << pc, permits >>
  /\ UNCHANGED << storeVars, pureVars, kind, MAX_CONCURRENCY, queue, cache, completedLog, shutdown, ev, late, deliveries, stored >>

\* LLM worker: await semaphore.acquire() returns once a task has released.
LoopAcquire ==
  /\ loopPc = "acquire"
  /\ permits > 0
  /\ permits' = permits - 1
  /\ Dispatch(cur)
  /\ UNCHANGED << storeVars, pureVars, kind, MAX_CONCURRENCY, busVars, cache, completedLog, shutdown, ev,
                  calls, late, deliveries, stored >>

\* ------------------------------------------------------------------------
\* LLM worker: process_message
\* ------------------------------------------------------------------------

Req(m) == queue[m]

\* get_conversation_history without its test of the stored userId.
GetConversationHistory_AnyUser(entry, user) ==
  IF ~entry.present THEN << >> ELSE entry.messages

\* get_conversation_history: the stored messages, or none when the key is
\* absent or the entry belongs to another user.
GetConversationHistory(entry, user) ==
  IF ~entry.present THEN << >>
  ELSE IF entry.userId # user THEN << >>
  ELSE entry.messages

HasSystemMessage(hist) == hist # << >> /\ hist[1].role = "system"

\* The messages sent to the LLM: a fresh system prompt when the history has
\* none, the history, the user's message.
BuildMessages(hist, id, u) ==
  (IF HasSystemMessage(hist) THEN << >> ELSE << Msg(id, "system", u) >>)
    \o hist \o << Msg(id, "user", u) >>

\* update_conversation_history, from the conversation it read to the one it writes.
UpdateConversation(conv, id, u, sys) ==
  LET turn == << Msg(id, "user", u), Msg(id, "assistant", u) >> IN
  IF conv.present
    THEN [conv EXCEPT !.messages = @ \o turn]
    ELSE [present |-> TRUE, userId |-> u,
          messages |-> (IF sys THEN << Msg(id, "system", u) >> ELSE << >>) \o turn]

Event(t, k) == [t |-> t, k |-> k]

\* Leave the processing with an exception, for _process_and_handle_message to handle.
Raise(m) == /\ pc' = [pc EXCEPT ![m] = "settle"]
            /\ loc' = [loc EXCEPT ![m].raised = TRUE]

\* Parse, validate, read the history, build the prompt, open the first stream.
T_Start(m) ==
  /\ kind = "llm" /\ pc[m] = "start"
  /\ IF ~Req(m).valid
       THEN /\ pc' = [pc EXCEPT ![m] = "settle"]
            /\ UNCHANGED loc
       ELSE LET entry == cache[Req(m).sessionId]
                hist == GetConversationHistory(entry, Req(m).userId)
            IN /\ pc' = [pc EXCEPT ![m] = "stream1"]
               /\ loc' = [loc EXCEPT ![m].hasSys = HasSystemMessage(hist),
                                     ![m].sysContent = ~HasSystemMessage(hist),
                                     ![m].messages = BuildMessages(hist, m, Req(m).userId),
                                     ![m].sawOther = entry.present /\ entry.userId # Req(m).userId]
  /\ UNCHANGED << storeVars, pureVars, kind, MAX_CONCURRENCY, busVars, cache, completedLog, shutdown, connected, permits,
                  loopVars, ev, calls, late, deliveries, stored >>

\* The cache read raises: get_conversation_history logs it and returns no history.
T_StartCacheError(m) ==
  /\ kind = "llm" /\ pc[m] = "start" /\ Req(m).valid
  /\ pc' = [pc EXCEPT ![m] = "stream1"]
  /\ loc' = [loc EXCEPT ![m].hasSys = FALSE, ![m].sysContent = TRUE,
                        ![m].messages = BuildMessages(<< >>, m, Req(m).userId)]
  /\ UNCHANGED << storeVars, pureVars, kind, MAX_CONCURRENCY, busVars, cache, completedLog, shutdown, connected, permits,
                  loopVars, ev, calls, late, deliveries, stored >>

\* The first chat.completions.create raises.
T_LlmError(m) ==
  /\ kind = "llm" /\ pc[m] = "start" /\ Req(m).valid
  /\ Raise(m)
  /\ UNCHANGED << storeVars, pureVars, kind, MAX_CONCURRENCY, busVars, cache, completedLog, shutdown, connected, permits,
                  loopVars, ev, calls, late, deliveries, stored >>

Tokens(log) == SelectSeq(log, LAMBDA e : e.t = "token")

\* The token events of n more content chunks, numbered on from those sent.
Chunks(log, n) == [i \in 1..n |-> Event("token", Len(Tokens(log)) + i)]

\* The order of the steps of process_message.
AfterStream(p, tools) ==
  IF p = "stream1" /\ tools # "none" THEN "stream2" ELSE "eos"

\* process_message publishing the completion event before it updates the cache.
AfterStep_PublishFirst(p) ==
  CASE p = "eos" -> "publish"
    [] p = "publish" -> "upd_get"
    [] p = "upd_get" -> "upd_set"
    [] p = "upd_set" -> "settle"

AfterStep(p) ==
  CASE p = "eos" -> "upd_get"
    [] p = "upd_get" -> "upd_set"
    [] p = "upd_set" -> "publish"
    [] p = "publish" -> "settle"

\* One stream, from its first chunk to its end: each content delta is sent to
\* token-streams as it arrives, MaxChunks of them.  With reassembled tool calls
\* ("search": a call of search_conversation_history, "other": one of another
\* name) the assistant message and the tool results are appended and the
\* follow-up stream is opened.  A send on a closed client raises.
T_Stream(m, tools) ==
  /\ kind = "llm" /\ pc[m] \in {"stream1", "stream2"}
  /\ IF loc[m].stale
       THEN Raise(m) /\ UNCHANGED ev
       ELSE /\ ev' = [ev EXCEPT ![m] = @ \o Chunks(@, MaxChunks)]
            /\ pc' = [pc EXCEPT ![m] = AfterStream(pc[m], tools)]
            /\ loc' = IF pc[m] = "stream1" /\ tools # "none"
                        THEN [loc EXCEPT ![m].messages =
                                @ \o << Msg(m, "assistant_tool_calls", Req(m).userId) >>
                                  \o (IF tools = "search"
                                        THEN << Msg(m, "tool", Req(m).userId) >> ELSE << >>)]
                        ELSE loc
  /\ UNCHANGED << storeVars, pureVars, kind, MAX_CONCURRENCY, busVars, cache, completedLog, shutdown, connected, permits,
                  loopVars, calls, late, deliveries, stored >>

\* The stream, or a send of one of its tokens, raises after n chunks.
T_StreamError(m, n) ==
  /\ kind = "llm" /\ pc[m] \in {"stream1", "stream2"}
  /\ ~loc[m].stale
  /\ ev' = [ev EXCEPT ![m] = @ \o Chunks(@, n)]
  /\ Raise(m)
  /\ UNCHANGED << storeVars, pureVars, kind, MAX_CONCURRENCY, busVars, cache, completedLog, shutdown, connected, permits,
                  loopVars, calls, late, deliveries, stored >>

\* Sending the end-of-stream sentinel raises.
T_SendError(m) ==
  /\ kind = "llm" /\ pc[m] = "eos"
  /\ Raise(m)
  /\ UNCHANGED << storeVars, pureVars, kind, MAX_CONCURRENCY, busVars, cache, completedLog, shutdown, connected, permits,
                  loopVars, ev, calls, late, deliveries, stored >>

\* The end-of-stream sentinel is sent.
T_Eos(m) ==
  /\ kind = "llm" /\ pc[m] = "eos"
  /\ IF loc[m].stale
       THEN Raise(m) /\ UNCHANGED ev
       ELSE /\ pc' = [pc EXCEPT ![m] = AfterStep("eos")]
            /\ ev' = [ev EXCEPT ![m] = Append(@, Event("eos", 0))]
            /\ loc' = [loc EXCEPT ![m].messages = << >>, ![m].sawOther = FALSE]
  /\ UNCHANGED << storeVars, pureVars, kind, MAX_CONCURRENCY, busVars, cache, completedLog, shutdown, connected, permits,
                  loopVars, calls, late, deliveries, stored >>

\* update_conversation_history, first await: read the conversation.
T_UpdGet(m) ==
  /\ kind = "llm" /\ pc[m] = "upd_get"
  /\ pc' = [pc EXCEPT ![m] = AfterStep("upd_get")]
  /\ loc' = [loc EXCEPT ![m].conv = cache[Req(m).sessionId]]
  /\ UNCHANGED << storeVars, pureVars, kind, MAX_CONCURRENCY, busVars, cache, completedLog, shutdown, connected, permits,
                  loopVars, ev, calls, late, deliveries, stored >>

\* update_conversation_history, second await: write it back with the turn appended.
T_UpdSet(m) ==
  /\ kind = "llm" /\ pc[m] = "upd_set"
  /\ pc' = [pc EXCEPT ![m] = AfterStep("upd_set")]
  /\ cache' = [cache EXCEPT ![Req(m).sessionId] =
                 UpdateConversation(loc[m].conv, m, Req(m).userId, loc[m].sysContent)]
  /\ loc' = [loc EXCEPT ![m].conv = NoEntry]
  /\ ev' = [ev EXCEPT ![m] = Append(@, Event("cache", 0))]
  /\ UNCHANGED << storeVars, pureVars, kind, MAX_CONCURRENCY, busVars, completedLog, shutdown, connected, permits,
                  loopVars, calls, late, deliveries, stored >>

\* An update_conversation_history that lets its exception out.
UpdateErrorRaises_Always == TRUE

\* update_conversation_history: except Exception logs and does not raise.
UpdateErrorRaises == FALSE

\* The cache read or write of the update raises: logged, the turn goes on.
T_UpdError(m) ==
  /\ kind = "llm" /\ pc[m] \in {"upd_get", "upd_set"}
  /\ IF UpdateErrorRaises
       THEN /\ pc' = [pc EXCEPT ![m] = "settle"]
            /\ loc' = [loc EXCEPT ![m].conv = NoEntry, ![m].raised = TRUE]
       ELSE /\ pc' = [pc EXCEPT ![m] = "publish"]
            /\ loc' = [loc EXCEPT ![m].conv = NoEntry]
  /\ UNCHANGED << storeVars, pureVars, kind, MAX_CONCURRENCY, busVars, cache, completedLog, shutdown, connected, permits,
                  loopVars, ev, calls, late, deliveries, stored >>

\* publish_message_completed_event; a failure is logged and not raised.
T_Publish(m) ==
  /\ kind = "llm" /\ pc[m] = "publish"
  /\ pc' = [pc EXCEPT ![m] = AfterStep("publish")]
  /\ \E ok \in BOOLEAN :
       /\ ok => ~loc[m].stale
       /\ completedLog' = IF ok THEN Append(completedLog, m) ELSE completedLog
       /\ ev' = IF ok THEN [ev EXCEPT ![m] = Append(@, Event("completed", 0))] ELSE ev
  /\ UNCHANGED << storeVars, pureVars, kind, MAX_CONCURRENCY, busVars, cache, shutdown, connected, permits,
                  loopVars, loc, calls, late, deliveries, stored >>

\* ------------------------------------------------------------------------
\* History worker and memory worker: the task takes the permit itself
\* ------------------------------------------------------------------------

\* async with semaphore, then the task's own test of shutdown_event.
T_Enter(m) ==
  /\ kind # "llm" /\ pc[m] = "wait"
  /\ permits > 0
  /\ permits' = permits - 1
  /\ loc' = [loc EXCEPT ![m].holds = TRUE]
  /\ pc' = [pc EXCEPT ![m] = IF shutdown THEN "sd_abandon" ELSE "proc"]
  /\ UNCHANGED << storeVars, pureVars, kind, MAX_CONCURRENCY, busVars, cache, completedLog, shutdown, connected,
                  loopVars, ev, calls, late, deliveries, stored >>

\* A worker that takes a missing conversation for a finished one and returns.
ProcessOutcome_ReturnWhenMissing(k, req, entry) ==
  IF req.valid /\ entry.present THEN "store" ELSE "return"

\* What processing a completion event ends with when no call fails: the
\* history worker raises on a missing sessionId or a missing cache entry, the
\* memory worker logs either and returns; otherwise the document is upserted.
ProcessOutcome(k, req, entry) ==
  IF req.valid /\ entry.present THEN "store"
  ELSE IF k = "history" THEN "raise" ELSE "return"

\* What it ends with when a call fails (step "read": the cache read, "store":
\* an upsert): the history worker lets the exception out, the memory worker's
\* helpers log it and processing returns.
FailureOutcome(k, step) == IF k = "history" THEN "raise" ELSE "return"

\* The end of the processing, by its outcome.
EndProcess(m, outcome) ==
  /\ IF outcome = "raise"
       THEN Raise(m)
       ELSE pc' = [pc EXCEPT ![m] = "settle"] /\ UNCHANGED loc
  /\ stored' = IF outcome = "store" THEN stored \cup {m} ELSE stored

T_Process(m) ==
  /\ kind # "llm" /\ pc[m] = "proc"
  /\ EndProcess(m, ProcessOutcome(kind, Req(m), cache[Req(m).sessionId]))
  /\ UNCHANGED << storeVars, pureVars, kind, MAX_CONCURRENCY, busVars, cache, completedLog, shutdown, connected, permits,
                  loopVars, ev, calls, late, deliveries >>

\* A call of the processing fails: the cache read, or an upsert once the
\* conversation was read.
T_ProcessError(m, step) ==
  /\ kind # "llm" /\ pc[m] = "proc" /\ Req(m).valid
  /\ step = "store" => cache[Req(m).sessionId].present
  /\ EndProcess(m, FailureOutcome(kind, step))
  /\ UNCHANGED << storeVars, pureVars, kind, MAX_CONCURRENCY, busVars, cache, completedLog, shutdown, connected, permits,
                  loopVars, ev, calls, late, deliveries >>

\* ------------------------------------------------------------------------
\* _process_and_handle_message: settlement and release
\* ------------------------------------------------------------------------

\* A settlement call through the task's receiver: it fails when the receiver
\* has been closed, and may fail otherwise.
SettleCall(m, op, ok) ==
  /\ ok => ~loc[m].stale
  /\ st' = [st EXCEPT ![m] = Settled(op, ok, @)]
  /\ calls' = [calls EXCEPT ![m] = @ \cup {<<op, "task">>}]

\* A task that completes the message whatever the processing did.
SettleOp_AlwaysComplete(raised) == "complete"

\* Which settlement follows the processing: complete_message when it returned,
\* abandon_message in the handler of its exception.
SettleOp(raised) == IF raised THEN "abandon" ELSE "complete"

\* The settlement after the processing.  A failure of complete_message is an
\* exception of the task as well and takes it to the handler; a failure of
\* abandon_message in the handler is logged.
T_Settle(m) ==
  /\ pc[m] = "settle"
  /\ \E ok \in BOOLEAN :
       /\ SettleCall(m, SettleOp(loc[m].raised), ok)
       /\ pc' = [pc EXCEPT ![m] = IF ok \/ SettleOp(loc[m].raised) = "abandon"
                                    THEN "finally" ELSE "abandon"]
  /\ UNCHANGED << storeVars, pureVars, kind, MAX_CONCURRENCY, queue, cache, completedLog, shutdown, connected, permits,
                  loopVars, loc, ev, late, deliveries, stored >>

\* The task's own abandon when it finds shutdown_event set before processing.
T_ShutdownAbandon(m) ==
  /\ pc[m] = "sd_abandon"
  /\ \E ok \in BOOLEAN :
       /\ SettleCall(m, "abandon", ok)
       /\ pc' = [pc EXCEPT ![m] = IF ok THEN "finally" ELSE "abandon"]
  /\ UNCHANGED << storeVars, pureVars, kind, MAX_CONCURRENCY, queue, cache, completedLog, shutdown, connected, permits,
                  loopVars, loc, ev, late, deliveries, stored >>

\* except Exception, entered from a failed settlement call:
\* receiver.abandon_message; its own failure is logged.
T_Abandon(m) ==
  /\ pc[m] = "abandon"
  /\ \E ok \in BOOLEAN : SettleCall(m, "abandon", ok)
  /\ pc' = [pc EXCEPT ![m] = "finally"]
  /\ UNCHANGED << storeVars, pureVars, kind, MAX_CONCURRENCY, queue, cache, completedLog, shutdown, connected, permits,
                  loopVars, loc, ev, late, deliveries, stored >>

\* A task that gives the permit back only when its processing did not raise.
PermitsAfterExit_NotWhenRaised(p, t) == IF t.holds /\ ~t.raised THEN p + 1 ELSE p

\* The permit goes back when the task leaves: finally: semaphore.release() in
\* the LLM worker, the exit of "async with semaphore" in the other two.
PermitsAfterExit(p, t) == IF t.holds THEN p + 1 ELSE p

T_Finally(m) ==
  /\ pc[m] = "finally"
  /\ permits' = PermitsAfterExit(permits, loc[m])
  /\ pc' = [pc EXCEPT ![m] = "none"]
  /\ loc' = [loc EXCEPT ![m] = NoLocals]
  /\ ev' = [ev EXCEPT ![m] = << >>]
  /\ calls' = [calls EXCEPT ![m] = {}]
  /\ UNCHANGED << storeVars, pureVars, kind, MAX_CONCURRENCY, busVars, cache, completedLog, shutdown, connected,
                  loopVars, late, deliveries, stored >>

\* ------------------------------------------------------------------------
\* Shutdown: wait_for_tasks_completion, closing the clients
\* ------------------------------------------------------------------------

\* Every task has finished within the timeout (or there was none): the cache,
\* store and LLM clients are closed and main() returns.
LoopDrained ==
  /\ loopPc = "drain"
  /\ ActiveTasks = {}
  /\ loopPc' = "stopped"
  /\ UNCHANGED << storeVars, pureVars, kind, MAX_CONCURRENCY, busVars, cache, completedLog, shutdown, connected, permits,
                  cur, taskVars, calls, late, deliveries, stored >>

\* The timeout expires: the tasks not done are cancelled; CancelledError is no
\* Exception, so a cancelled task runs no handler and only leaves.
LoopDrainTimeout ==
  /\ loopPc = "drain"
  /\ ActiveTasks # {}
  /\ pc' = [m \in Ids |-> IF pc[m] # "none" THEN "finally" ELSE pc[m]]
  /\ loc' = [m \in Ids |-> IF pc[m] \notin {"none", "finally"}
                             THEN [loc[m] EXCEPT !.cancelled = TRUE] ELSE loc[m]]
  /\ loopPc' = "stopped"
  /\ UNCHANGED << storeVars, pureVars, kind, MAX_CONCURRENCY, busVars, cache, completedLog, shutdown, connected, permits,
                  cur, ev, calls, late, deliveries, stored >>

\* ------------------------------------------------------------------------
\* Environment: a crash of the worker process
\* ------------------------------------------------------------------------

\* The process is killed and started again: tasks, semaphore and flags are new,
\* the bus and the cache keep what they hold.
Crash ==
  /\ loopPc # "connect" \/ shutdown
  /\ shutdown' = FALSE
  /\ connected' = FALSE
  /\ permits' = MAX_CONCURRENCY
  /\ loopPc' = "connect"
  /\ cur' = 0
  /\ pc' = [m \in Ids |-> "none"]
  /\ loc' = [m \in Ids |-> NoLocals]
  /\ ev' = [m \in Ids |-> << >>]
  /\ calls' = [m \in Ids |-> {}]
  /\ late' = {}
  /\ UNCHANGED << storeVars, pureVars, kind, MAX_CONCURRENCY, busVars, cache, completedLog, deliveries, stored >>

Next == Signal \/ LoopConnect \/ LoopReceive \/ LoopIdle
        \/ LoopConnectionError \/ LoopCheck \/ LoopAcquire
        \/ LoopDrained \/ LoopDrainTimeout \/ Crash
        \/ (\E m \in Published : T_Start(m))
        \/ (\E m \in Published : T_StartCacheError(m))
        \/ (\E m \in Published : T_LlmError(m))
        \/ (\E m \in Published, tools \in {"none", "search", "other"} : T_Stream(m, tools))
        \/ (\E m \in Published, n \in 0..MaxChunks : T_StreamError(m, n))
        \/ (\E m \in Published : T_SendError(m))
        \/ (\E m \in Published : T_Eos(m))
        \/ (\E m \in Published : T_UpdGet(m))
        \/ (\E m \in Published : T_UpdSet(m))
        \/ (\E m \in Published : T_UpdError(m))
        \/ (\E m \in Published : T_Publish(m))
        \/ (\E m \in Published : T_Enter(m))
        \/ (\E m \in Published : T_Process(m))
        \/ (\E m \in Published, step \in {"read", "store"} : T_ProcessError(m, step))
        \/ (\E m \in Published : T_Settle(m))
        \/ (\E m \in Published : T_ShutdownAbandon(m))
        \/ (\E m \in Published : T_Abandon(m))
        \/ (\E m \in Published : T_Finally(m))

Spec == Init /\ [][Next]_vars

\* ------------------------------------------------------------------------
\* Per-session ordering in the LLM worker
\* ------------------------------------------------------------------------

\* The attempt of m that is running, or has just ended, has written the cache.
WroteCache(m) == \E i \in DOMAIN ev[m] : ev[m][i].t = "cache"

\* Every message was delivered once: nothing was abandoned and received again.
NoRedelivery == deliveries = Len(queue)

SameSession(a, b) == Req(a).sessionId = Req(b).sessionId

\* The conversation update_conversation_history leaves when it runs for a on
\* an empty cache and then for b.
Sequential(a, b) ==
  UpdateConversation(UpdateConversation(NoEntry, a, Req(a).userId, TRUE),
                     b, Req(b).userId, FALSE)

\* C1: for two requests of one session published in that order, once both are
\* completed (each delivered once, each attempt having written the cache, no
\* other request on the session), the session's cache entry is the one the
\* two updates leave when run one after the other.
C1_CacheEqualsSequential ==
  \A a, b \in Published :
    ( /\ kind = "llm" /\ a < b /\ SameSession(a, b)
      /\ \A c \in Published : SameSession(a, c) => c \in {a, b}
      /\ NoRedelivery
      /\ st[a] = "done" /\ st[b] = "done"
      /\ WroteCache(a) /\ WroteCache(b) )
    => cache[Req(a).sessionId] = Sequential(a, b)

\* The requests published on a session.
TurnsOf(s) == { m \in Published : Req(m).sessionId = s }

\* One system message first, then user and assistant messages in turn.
SystemThenTurns(msgs) ==
  /\ msgs # << >>
  /\ msgs[1].role = "system"
  /\ \A i \in 2..Len(msgs) :
       msgs[i].role = (IF i % 2 = 0 THEN "user" ELSE "assistant")

\* C30: once the n requests of a session, all of one user, are completed (each
\* delivered once, each attempt having written the cache), the session's cache
\* entry holds 1 + 2n messages: one system message at position 0 and no other,
\* then user and assistant messages in turn.
C30_OneSystemMessageThenTurns ==
  \A s \in Sessions :
    ( /\ kind = "llm" /\ TurnsOf(s) # {}
      /\ NoRedelivery
      /\ \A m \in TurnsOf(s) :
           /\ Req(m).valid /\ st[m] = "done" /\ WroteCache(m)
           /\ \A c \in TurnsOf(s) : Req(c).userId = Req(m).userId )
    => /\ Len(cache[s].messages) = 1 + 2 * Cardinality(TurnsOf(s))
       /\ SystemThenTurns(cache[s].messages)

\* C2: in the LLM worker no two processing tasks of one session exist at the
\* same time.
C2_OneTaskPerSession ==
  \A a, b \in ActiveTasks :
    (kind = "llm" /\ a # b) => ~SameSession(a, b)

\* C3: message-completed events of one session are published in the order of
\* the requests (each request delivered once).
C3_CompletedInOrder ==
  \A i, j \in DOMAIN completedLog :
    ( /\ kind = "llm" /\ NoRedelivery /\ i < j
      /\ SameSession(completedLog[i], completedLog[j]) )
    => completedLog[i] < completedLog[j]

\* ------------------------------------------------------------------------
\* Redelivery, and the cache entry of another user
\* ------------------------------------------------------------------------

\* C4: when a request is completed by an attempt that wrote the cache, and
\* it is the only request of its session, the session's entry is the one a
\* single successful processing leaves, whatever failed in earlier attempts.
C4_RetryLeavesSingleTurn ==
  \A m \in Published :
    ( /\ kind = "llm" /\ Req(m).valid
      /\ \A c \in Published : SameSession(m, c) => c = m
      /\ st[m] = "done" /\ WroteCache(m) )
    => cache[Req(m).sessionId] = UpdateConversation(NoEntry, m, Req(m).userId, TRUE)

\* C5: a request that found its session's entry stored for another user sends
\* the LLM a fresh system prompt for its own user, then its own message, and
\* nothing of the entry.
C5_OtherUsersEntryIsAbsent ==
  \A m \in Published :
    (kind = "llm" /\ loc[m].sawOther) =>
      /\ ~loc[m].hasSys
      /\ SubSeq(loc[m].messages, 1, 2)
           = << Msg(m, "system", Req(m).userId), Msg(m, "user", Req(m).userId) >>
      /\ \A i \in DOMAIN loc[m].messages :
           loc[m].messages[i].id = m /\ loc[m].messages[i].u = Req(m).userId

\* A request of user u2 is streaming on a session whose entry holds a turn of u1.
C5_Witness ==
  \E m \in Published :
    /\ kind = "llm" /\ pc[m] = "stream1" /\ loc[m].sawOther
    /\ cache[Req(m).sessionId].userId # Req(m).userId
    /\ Len(cache[Req(m).sessionId].messages) >= 3

\* ------------------------------------------------------------------------
\* Settlement
\* ------------------------------------------------------------------------

\* C6, as stated: every settlement call for a received message is made by its
\* processing task.
C6_SettledOnlyInTask ==
  \A m \in Published : \A c \in calls[m] : c[2] = "task"

\* C6: a message handed to a task is settled by that task only; the loop
\* settles (abandons) only a message it received and gave to no task, when
\* shutdown_event is set.  A task calls complete only when its processing
\* returned, and has called abandon by the time it leaves, unless cancelled,
\* when its processing raised; such a message is not completed.
C6_Settlement ==
  \A m \in Published :
    /\ \A c \in calls[m] :
         c[2] = "loop" => (c[1] = "abandon" /\ pc[m] = "none" /\ shutdown)
    /\ <<"complete", "task">> \in calls[m] => ~loc[m].raised
    /\ loc[m].raised => st[m] # "done"
    /\ (loc[m].raised /\ pc[m] = "finally" /\ ~loc[m].cancelled)
         => <<"abandon", "task">> \in calls[m]
    /\ (st[m] = "done" /\ Live(m)) => <<"complete", "task">> \in calls[m]

\* A task whose processing raised has abandoned its message, which the broker
\* can deliver again.
C6_Witness ==
  \E m \in Published :
    /\ loc[m].raised /\ pc[m] = "finally" /\ ~loc[m].cancelled
    /\ calls[m] = {<<"abandon", "task">>} /\ st[m] = "avail"

\* ------------------------------------------------------------------------
\* Order of the events of one turn
\* ------------------------------------------------------------------------

Rank(e) ==
  CASE e.t = "token" -> 1
    [] e.t = "eos" -> 2
    [] e.t = "cache" -> 3
    [] e.t = "completed" -> 4

Has(log, t) == \E i \in DOMAIN log : log[i].t = t

\* C7: what an attempt has published is its tokens in generation order, then at
\* most one end_of_stream, then the cache update, then message-completed; and
\* a turn that reaches its settlement without raising has sent every token of
\* its streams and exactly one end_of_stream before the other two.
C7_EventOrder ==
  \A m \in Published :
    /\ \A i, j \in DOMAIN ev[m] : i < j => Rank(ev[m][i]) <= Rank(ev[m][j])
    /\ \A i, j \in DOMAIN ev[m] :
         (i < j /\ Rank(ev[m][i]) = Rank(ev[m][j]))
           => (ev[m][i].t = "token" /\ ev[m][i].k < ev[m][j].k)
    /\ \A i \in DOMAIN ev[m] : ev[m][i].t = "token" => ev[m][i].k = i
    /\ (Has(ev[m], "cache") \/ Has(ev[m], "completed")) => Has(ev[m], "eos")
    /\ (kind = "llm" /\ Req(m).valid /\ pc[m] = "settle" /\ ~loc[m].raised)
         => /\ Has(ev[m], "eos")
            /\ Len(Tokens(ev[m])) \in {MaxChunks, 2 * MaxChunks}

\* A turn with a tool call has published the tokens of both streams, the
\* end_of_stream, the cache update and message-completed.
C7_Witness ==
  \E m \in Published :
    /\ pc[m] = "settle" /\ ~loc[m].raised
    /\ Len(ev[m]) = 2 * MaxChunks + 3
    /\ ev[m][Len(ev[m])].t = "completed"
    /\ ev[m][Len(ev[m]) - 1].t = "cache"
    /\ ev[m][Len(ev[m]) - 2].t = "eos"

\* ------------------------------------------------------------------------
\* The semaphore
\* ------------------------------------------------------------------------

Holders == { m \in Ids : loc[m].holds }

\* C8: the tasks running under a permit are at most MAX_CONCURRENCY, and the
\* permits out are exactly those of the tasks that took one and have not left:
\* none is leaked, none is given back twice.
C8_PermitsConserved ==
  /\ permits \in 0..MAX_CONCURRENCY
  /\ permits + Cardinality(Holders) = MAX_CONCURRENCY
  /\ Holders \subseteq ActiveTasks
  /\ Cardinality(Holders) <= MAX_CONCURRENCY

\* With every message delivered once: a task whose processing raised has left
\* and its permit is back, while another task still runs under its own.
C8_Witness ==
  \E a, b \in Published :
    /\ NoRedelivery /\ deliveries = 2
    /\ st[a] = "avail" /\ pc[a] = "none" /\ ~shutdown
    /\ pc[b] \notin {"none", "wait"} /\ loc[b].holds
    /\ permits = MAX_CONCURRENCY - 1

\* C9: the received, unsettled messages held by tasks are at most
\* MAX_CONCURRENCY.
C9_HeldByTasksBounded ==
  Cardinality({ m \in ActiveTasks : st[m] = "locked" }) <= MAX_CONCURRENCY

\* ------------------------------------------------------------------------
\* Shutdown
\* ------------------------------------------------------------------------

\* C10: a message whose receive returned after the shutdown signal gets no
\* task and is not completed; once the loop has looked at it, it has called
\* abandon for it and receives no more.
C10_LateMessagesAbandoned ==
  \A m \in late :
    /\ pc[m] = "none"
    /\ st[m] # "done"
    /\ cur = m => loopPc = "check"
    /\ cur # m => (<<"abandon", "loop">> \in calls[m] /\ loopPc \in {"drain", "stopped"})

\* A message received after the signal is back on the bus, abandoned by the
\* loop, which is on its way out.
C10_Witness ==
  \E m \in late :
    /\ shutdown /\ st[m] = "avail" /\ calls[m] = {<<"abandon", "loop">>}
    /\ loopPc = "drain"

\* ------------------------------------------------------------------------
\* Shutdown order
\* ------------------------------------------------------------------------

\* C11: while main() awaits the outstanding tasks, the bus client and the
\* receiver those tasks were given are still open.
C11_ClientsOpenWhileDraining ==
  \A m \in ActiveTasks : loopPc = "drain" => ~loc[m].stale

\* C12: a task cancelled at the drain timeout has called abandon for its
\* message, and the message is not completed.
C12_CancelledAreAbandoned ==
  \A m \in Published :
    loc[m].cancelled => (<<"abandon", "task">> \in calls[m] /\ st[m] # "done")

\* ------------------------------------------------------------------------
\* Failures of the LLM worker's turn
\* ------------------------------------------------------------------------

\* A step in which an operation before the cache update fails: the read of the
\* history (of an entry a successful read would have used), an LLM call or
\* stream, the send of a token or of the end of stream.
EarlyFailure(m) ==
  \/ T_StartCacheError(m) /\ ~T_Start(m)
  \/ T_LlmError(m)
  \/ \E n \in 0..MaxChunks : T_StreamError(m, n)
  \/ T_SendError(m)

\* C13: every failure before the cache update leaves process_message with an
\* exception, so that the message is abandoned.
C13_EarlyFailuresAbandon ==
  [][\A m \in Published :
       EarlyFailure(m) => (loc'[m].raised /\ pc'[m] = "settle")]_vars

\* C14: a request with all its fields is completed only by an attempt that has
\* published its message-completed event (attempts that wrote the cache).
C14_CompletedOnlyIfPublished ==
  \A m \in Published :
    (kind = "llm" /\ Req(m).valid /\ Live(m) /\ st[m] = "done" /\ WroteCache(m))
      => Has(ev[m], "completed")

\* C15: a failure of the cache read or write of update_conversation_history
\* leaves the cache as it was and the turn unfailed, on its way to publishing
\* message-completed; nothing after the end of stream fails the turn.
C15_CacheFailureDoesNotFailTurn ==
  /\ [](\A m \in Published : Has(ev[m], "eos") => ~loc[m].raised)
  /\ [][\A m \in Published :
          T_UpdError(m) => (pc'[m] = "publish" /\ ~loc'[m].raised /\ cache' = cache)]_vars

\* A first turn whose cache update failed is published and completed, and
\* its session has no entry.
C15_Witness ==
  \E m \in Published :
    /\ kind = "llm" /\ Req(m).valid /\ NoRedelivery
    /\ st[m] = "done" /\ Live(m)
    /\ ~WroteCache(m) /\ Has(ev[m], "completed")
    /\ ~cache[Req(m).sessionId].present

\* C16: processing a request that lacks a required field returns without
\* raising, having published an end_of_stream event and nothing else.
C16_MalformedGetsEndOfStream ==
  \A m \in Published :
    (kind = "llm" /\ ~Req(m).valid /\ pc[m] = "settle")
      => (~loc[m].raised /\ ev[m] = << Event("eos", 0) >>)

\* C17: in the history worker and the memory worker a completion event that
\* misses a required field is terminal: once its processing has ended, the task
\* goes on to complete the message (it has not raised, so it will not abandon
\* it for redelivery), and no store document was written for it.
C17_MalformedEventConsumed ==
  \A m \in Published :
    (kind # "llm" /\ ~Req(m).valid /\ pc[m] = "settle")
      => (~loc[m].raised /\ m \notin stored)

\* C18: in the history worker, when the cache holds no entry for the event's
\* sessionId, or the read of the cache fails, the processing ends with an
\* exception and upserts no document; the task that raised never calls
\* complete, its message is not completed, and it has called abandon by the
\* time it leaves (unless it was cancelled).
C18_MissingConversationAbandons ==
  /\ [][\A m \in Published :
          ( /\ kind = "history" /\ Req(m).valid
            /\ pc[m] = "proc" /\ pc'[m] = "settle"
            /\ (~cache[Req(m).sessionId].present \/ T_ProcessError(m, "read")) )
            => (loc'[m].raised /\ stored' = stored)]_vars
  /\ [](\A m \in Published :
          (kind = "history" /\ loc[m].raised)
            => /\ <<"complete", "task">> \notin calls[m]
               /\ st[m] # "done"
               /\ (pc[m] = "finally" /\ ~loc[m].cancelled)
                    => <<"abandon", "task">> \in calls[m])

\* The history worker found no conversation for a well-formed event, stored
\* nothing and abandoned the message, which can be delivered again.
C18_Witness ==
  \E m \in Published :
    /\ kind = "history" /\ Req(m).valid /\ ~cache[Req(m).sessionId].present
    /\ loc[m].raised /\ pc[m] = "finally"
    /\ calls[m] = {<<"abandon", "task">>} /\ st[m] = "avail"
    /\ m \notin stored

\* C19: in the memory worker, a well-formed completion event whose session has
\* no entry in the cache is a retryable failure: its processing ends with an
\* exception, so that the task abandons the message instead of completing it.
C19_MemoryMissingConversationAbandons ==
  \A m \in Published :
    ( /\ kind = "memory" /\ Req(m).valid
      /\ ~cache[Req(m).sessionId].present
      /\ pc[m] = "settle" )
      => loc[m].raised

\* C20: in the memory worker, a well-formed completion event whose conversation
\* is in the cache is completed only if the processing stored its document: a
\* failed upsert leaves the message to be abandoned and delivered again.
C20_CompletedOnlyIfStored ==
  \A m \in Published :
    ( /\ kind = "memory" /\ Req(m).valid
      /\ cache[Req(m).sessionId].present
      /\ st[m] = "done" )
      => m \in stored

\* ------------------------------------------------------------------------
\* History worker and memory worker: the processing of one completion event,
\* call by call.  A second specification (SpecStore), with the LLM worker
\* that writes the cache and publishes the events as its environment, and
\* without the receive loop and the shutdown of Spec.
\* ------------------------------------------------------------------------

\* deliveries of completion events in one run of SpecStore
MaxStoreDeliveries == 2

\* Text is a sequence of one-character strings.
Rep(c, n) == [i \in 1..n |-> c]

NewConversation ==
  << "N", "e", "w", " ", "C", "o", "n", "v", "e", "r", "s", "a", "t", "i", "o", "n" >>

\* The title completion as the processing sees it: it fails (the call raises,
\* or there is no content), or it returns a content, here nothing or a word
\* in quotes.
TitleOutputs ==
  { [ok |-> FALSE, content |-> << >>],
    [ok |-> TRUE, content |-> << >>],
    [ok |-> TRUE, content |-> << "\"", "a", "\"" >>] }

RECURSIVE LStrip(_)
LStrip(s) == IF s # << >> /\ Head(s) = " " THEN LStrip(Tail(s)) ELSE s

RECURSIVE RStrip(_)
RStrip(s) == IF s # << >> /\ s[Len(s)] = " " THEN RStrip(SubSeq(s, 1, Len(s) - 1)) ELSE s

\* str.strip()
Strip(s) == RStrip(LStrip(s))

\* str.replace(c, '') for each c of chars
Without(s, chars) == SelectSeq(s, LAMBDA c : c \notin chars)

\* s[:n]
Prefix(s, n) == SubSeq(s, 1, IF Len(s) < n THEN Len(s) ELSE n)

\* A clean-up that cuts the title before it removes the quotes and colons.
CleanTitle_NoRemoval(content) ==
  LET a == Strip(content)
      b == IF Len(a) > 50 THEN Strip(Prefix(a, 50)) ELSE a
  IN IF b = << >> THEN NewConversation ELSE b

\* The clean-up of the generated title: strip, drop quotes and colons, cut to
\* 50 characters and strip again, fall back when nothing is left.
CleanTitle(content) ==
  LET a == Without(Strip(content), {"\"", "'", ":"})
      b == IF Len(a) > 50 THEN Strip(Prefix(a, 50)) ELSE a
  IN IF b = << >> THEN NewConversation ELSE b

\* The user and assistant messages among the first six, which the title
\* prompt is built from.
Excerpt(msgs) ==
  SelectSeq(Prefix(msgs, 6), LAMBDA x : x.role \in {"user", "assistant"})

\* A title generation whose failure comes out as an exception.
TitleFailureRaises_Always == TRUE

\* except Exception: log and return the fallback.
TitleFailureRaises == FALSE

\* generate_conversation_title, for a conversation that has no title yet and
\* the output of the title completion.
GenerateTitle(conv, out) ==
  IF Excerpt(conv.messages) = << >> THEN NewConversation
  ELSE IF ~out.ok THEN NewConversation
  ELSE CleanTitle(out.content)

\* An upsert that adds the document beside the ones stored.
Upsert_Insert(container, doc) == container \cup {doc}

\* container.upsert_item: the document replaces the one with its id, if any.
Upsert(container, doc) == { d \in container : d.id # doc.id } \cup {doc}

\* The document persist_conversation_to_cosmos builds from the conversation it
\* was given; persistedAt is the time of the build.
HistoryDoc(s, conv, title, now) ==
  [ id |-> s, sessionId |-> s, userId |-> conv.userId, title |-> title,
    messages |-> conv.messages, persistedAt |-> now ]

max_retries == 3

\* A retry loop that retries every store error, throttling or not.
AfterUpsert_RetryAnyError(attempt, resp) ==
  IF resp = "ok" THEN "done"
  ELSE IF attempt < max_retries - 1 THEN "retry"
  ELSE "raise"

\* One pass of the retry loop: attempt is the loop index (0, 1, 2), resp the
\* store's answer.  A throttling answer is retried after a sleep unless it is
\* the last attempt; everything else is raised.
AfterUpsert(attempt, resp) ==
  IF resp = "ok" THEN "done"
  ELSE IF resp = "throttled" /\ attempt < max_retries - 1 THEN "retry"
  ELSE "raise"

StoreShell ==
  << MAX_CONCURRENCY, completedLog, shutdown, connected, permits, loopPc, cur, loc, ev,
     late, stored, pureVars >>

\* The environment: the LLM worker ends a turn of a session, writes the cache
\* entry and publishes the turn's completion event.
LlmTurn ==
  /\ Len(queue) < MaxDeliveries
  /\ \E r \in { x \in ShapesAt(Len(queue) + 1) : x.valid /\ x.userId = "u1" } :
       /\ queue' = Append(queue, r)
       /\ cache' = [cache EXCEPT ![r.sessionId] =
                      UpdateConversation(@, Len(queue) + 1, r.userId, TRUE)]
  /\ UNCHANGED << kind, StoreShell, st, pc, calls, deliveries, storeVars >>

\* The event is delivered (again, after an abandon or once its lock has
\* expired) and its processing task starts.
Deliver(m) ==
  /\ m \in Avail
  /\ deliveries < MaxStoreDeliveries
  /\ deliveries' = deliveries + 1
  /\ st' = [st EXCEPT ![m] = "locked"]
  /\ calls' = [calls EXCEPT ![m] = {}]
  /\ pc' = [pc EXCEPT ![m] = "fetch"]
  /\ job' = [job EXCEPT ![m] = NoJob]
  /\ UNCHANGED << kind, StoreShell, queue, cache, docs, convMem, userMem >>

\* The read of the cache entry and the caller's test of what it returned: no
\* entry is an exception in the history worker and a plain return in the
\* memory worker.
FetchConversation(m) ==
  /\ pc[m] = "fetch"
  /\ LET entry == cache[Req(m).sessionId]
         outcome == ProcessOutcome(kind, Req(m), entry)
     IN IF outcome = "store"
          THEN /\ job' = [job EXCEPT ![m].conv = IF kind = "history" THEN entry ELSE @]
               /\ pc' = [pc EXCEPT ![m] = IF kind = "history" THEN "title" ELSE "summary"]
          ELSE /\ job' = [job EXCEPT ![m].raised = outcome = "raise"]
               /\ pc' = [pc EXCEPT ![m] = "settle"]
  /\ UNCHANGED << kind, StoreShell, queue, st, cache, calls, deliveries, docs, convMem, userMem >>

\* The cache read fails.
FetchConversationError(m) ==
  /\ pc[m] = "fetch"
  /\ job' = [job EXCEPT ![m].raised = FailureOutcome(kind, "read") = "raise"]
  /\ pc' = [pc EXCEPT ![m] = "settle"]
  /\ UNCHANGED << kind, StoreShell, queue, st, cache, calls, deliveries, docs, convMem, userMem >>

\* persist_conversation_to_cosmos, up to the retry loop: the cache entry has
\* no title, so one is generated; the document is built.
PersistTitle(m, out) ==
  /\ kind = "history" /\ pc[m] = "title"
  /\ IF ~out.ok /\ Excerpt(job[m].conv.messages) # << >> /\ TitleFailureRaises
       THEN /\ job' = [job EXCEPT ![m].raised = TRUE]
            /\ pc' = [pc EXCEPT ![m] = "settle"]
       ELSE /\ job' = [job EXCEPT ![m].title = GenerateTitle(job[m].conv, out),
                                  ![m].now = deliveries]
            /\ pc' = [pc EXCEPT ![m] = "upsert"]
  /\ UNCHANGED << kind, StoreShell, queue, st, cache, calls, deliveries, docs, convMem, userMem >>

\* One attempt of the retry loop, with the store's answer.
PersistUpsert(m, resp) ==
  /\ kind = "history" /\ pc[m] = "upsert"
  /\ LET next == AfterUpsert(job[m].attempts, resp)
     IN /\ job' = [job EXCEPT ![m] =
                      IF next = "retry"
                        THEN [@ EXCEPT !.attempts = @ + 1]
                        ELSE [NoJob EXCEPT !.attempts = job[m].attempts + 1,
                                           !.upserted = next = "done",
                                           !.raised = next = "raise"]]
        /\ pc' = [pc EXCEPT ![m] = IF next = "retry" THEN "upsert" ELSE "settle"]
        /\ docs' = IF next = "done"
                     THEN Upsert(docs, HistoryDoc(Req(m).sessionId, job[m].conv,
                                                  job[m].title, job[m].now))
                     ELSE docs
  /\ UNCHANGED << kind, StoreShell, queue, st, cache, calls, deliveries, convMem, userMem >>

\* _process_and_handle_message after the processing: complete_message when it
\* returned, abandon_message in the handler of its exception; a failed
\* complete_message is handled as an exception too.
SettleProcessed(m) ==
  /\ pc[m] = "settle"
  /\ \E ok \in BOOLEAN :
       LET op == SettleOp(job[m].raised)
       IN /\ st' = [st EXCEPT ![m] = Settled(op, ok, @)]
          /\ calls' = [calls EXCEPT ![m] = @ \cup {<<op, "task">>}]
          /\ pc' = [pc EXCEPT ![m] = IF ok \/ op = "abandon" THEN "none" ELSE "abandon"]
  /\ job' = [job EXCEPT ![m].updates = << >>, ![m].existing_doc = << >>]
  /\ UNCHANGED << kind, StoreShell, queue, cache, deliveries, docs, convMem, userMem >>

\* The abandon_message of the handler after a failed complete_message.
AbandonProcessed(m) ==
  /\ pc[m] = "abandon"
  /\ \E ok \in BOOLEAN : st' = [st EXCEPT ![m] = Settled("abandon", ok, @)]
  /\ calls' = [calls EXCEPT ![m] = @ \cup {<<"abandon", "task">>}]
  /\ pc' = [pc EXCEPT ![m] = "none"]
  /\ UNCHANGED << kind, StoreShell, queue, cache, deliveries, storeVars >>

\* ---- memory worker

\* The user-memory fields of the model (the program has nine, all handled alike).
MemFields == {"interests", "goals"}

\* The arrays a field may hold.
Arrays == { << >>, << "x" >>, << "y" >> }

EmptyMemory == [f \in MemFields |-> << >>]

\* What the memory-extraction completion returns: a content that does not
\* validate against UserMemoryUpdates (a field missing, say), or a value for
\* every field.
ExtractionOutputs ==
  { [ok |-> FALSE, fields |-> EmptyMemory] }
    \cup { [ok |-> TRUE, fields |-> r] : r \in [MemFields -> Arrays] }

\* What the conversation analysis returns (summary, themes, persons, places,
\* sentiment and the embedding made of them, taken together).
Analyses == {"A1"}

\* extract_user_memory_updates: the non-empty fields of a valid output,
\* nothing for an invalid one.
FilterUpdates(out) ==
  IF ~out.ok THEN [f \in {} |-> << >>]
  ELSE [f \in { g \in MemFields : out.fields[g] # << >> } |-> out.fields[f]]

\* store_conversation_memory: conversation_doc
ConversationDoc(s, u, analysis, now) ==
  [ id |-> << s, u >>, userId |-> u, sessionId |-> s, summary |-> analysis,
    timestamp |-> now ]

\* update_user_memory: the document created when the read finds none.
NewUserDoc(u, now) ==
  [ id |-> u, userId |-> u, timestamp |-> now, fields |-> EmptyMemory ]

\* update_user_memory: container.read_item under a bare except: the stored
\* document, or a new empty one when the read raises, whatever the reason.
ExistingDoc(container, u, readOk, now) ==
  IF readOk /\ \E d \in container : d.id = u
    THEN CHOOSE d \in container : d.id = u
    ELSE NewUserDoc(u, now)

\* An update that appends the extracted arrays to the stored ones.
ApplyUpdates_Append(doc, updates, now) ==
  [doc EXCEPT !.fields = [f \in MemFields |->
                            IF f \in DOMAIN updates THEN doc.fields[f] \o updates[f]
                            ELSE doc.fields[f]],
              !.timestamp = now]

\* update_user_memory: each field of updates replaces the document's, the
\* others stay, the timestamp is refreshed.
ApplyUpdates(doc, updates, now) ==
  [doc EXCEPT !.fields = [f \in MemFields |->
                            IF f \in DOMAIN updates THEN updates[f] ELSE doc.fields[f]],
              !.timestamp = now]

\* extract_conversation_summary, store_conversation_memory: the analysis of
\* the conversation is upserted; a failure is logged.
StoreConversationMemory(m, analysis, ok) ==
  /\ kind = "memory" /\ pc[m] = "summary"
  /\ convMem' = IF ok
                  THEN Upsert(convMem, ConversationDoc(Req(m).sessionId, Req(m).userId,
                                                       analysis, deliveries))
                  ELSE convMem
  /\ pc' = [pc EXCEPT ![m] = "extract"]
  /\ UNCHANGED << kind, StoreShell, queue, st, cache, calls, deliveries, job, docs, userMem >>

\* get_existing_user_memory, extract_user_memory_updates and the caller's
\* test of the updates: nothing to update ends the processing.
ExtractUserMemory(m, out) ==
  /\ kind = "memory" /\ pc[m] = "extract"
  /\ job' = [job EXCEPT ![m].updates = FilterUpdates(out)]
  /\ pc' = [pc EXCEPT ![m] = IF DOMAIN FilterUpdates(out) = {} THEN "settle" ELSE "update_read"]
  /\ UNCHANGED << kind, StoreShell, queue, st, cache, calls, deliveries, docs, convMem, userMem >>

\* update_user_memory: the read of the stored document.
UpdateUserMemoryRead(m, readOk) ==
  /\ kind = "memory" /\ pc[m] = "update_read"
  /\ job' = [job EXCEPT ![m].existing_doc =
                          ExistingDoc(userMem, Req(m).userId, readOk, deliveries)]
  /\ pc' = [pc EXCEPT ![m] = "update_upsert"]
  /\ UNCHANGED << kind, StoreShell, queue, st, cache, calls, deliveries, docs, convMem, userMem >>

\* update_user_memory: the replacement of the fields and the upsert; a
\* failure is logged.
UpdateUserMemoryUpsert(m, ok) ==
  /\ kind = "memory" /\ pc[m] = "update_upsert"
  /\ userMem' = IF ok
                  THEN Upsert(userMem, ApplyUpdates(job[m].existing_doc, job[m].updates,
                                                    deliveries))
                  ELSE userMem
  /\ pc' = [pc EXCEPT ![m] = "settle"]
  /\ UNCHANGED << kind, StoreShell, queue, st, cache, calls, deliveries, job, docs, convMem >>

\* The receive loop and the tasks of Spec at rest: the specifications below
\* leave them alone.
AtRest ==
  /\ MAX_CONCURRENCY = MaxConcurrency
  /\ completedLog = << >>
  /\ shutdown = FALSE
  /\ connected = TRUE
  /\ permits = MAX_CONCURRENCY
  /\ loopPc = "recv"
  /\ cur = 0
  /\ loc = [m \in Ids |-> NoLocals]
  /\ ev = [m \in Ids |-> << >>]
  /\ late = {}
  /\ stored = {}

\* No event published, nothing cached.
NoTraffic ==
  /\ queue = << >>
  /\ st = [m \in Ids |-> "avail"]
  /\ cache = [s \in Sessions |-> NoEntry]
  /\ pc = [m \in Ids |-> "none"]
  /\ calls = [m \in Ids |-> {}]
  /\ deliveries = 0

InitStore ==
  /\ kind = "history"
  /\ AtRest /\ NoTraffic
  /\ StoreIdle
  /\ StreamIdle
  /\ TitleIdle
  /\ PoolIdle

NextStore ==
  \/ LlmTurn
  \/ (\E m \in Published : Deliver(m))
  \/ (\E m \in Published : FetchConversation(m))
  \/ (\E m \in Published : FetchConversationError(m))
  \/ (\E m \in Published, out \in TitleOutputs : PersistTitle(m, out))
  \/ (\E m \in Published, resp \in {"ok", "throttled", "error"} : PersistUpsert(m, resp))
  \/ (\E m \in Published : SettleProcessed(m))
  \/ (\E m \in Published : AbandonProcessed(m))

SpecStore == InitStore /\ [][NextStore]_vars

\* The same for the memory worker (SpecMemory).
InitMemory ==
  /\ kind = "memory"
  /\ AtRest /\ NoTraffic
  /\ StoreIdle
  /\ StreamIdle
  /\ TitleIdle
  /\ PoolIdle

NextMemory ==
  \/ LlmTurn
  \/ (\E m \in Published : Deliver(m))
  \/ (\E m \in Published : FetchConversation(m))
  \/ (\E m \in Published : FetchConversationError(m))
  \/ (\E m \in Published, analysis \in Analyses, ok \in BOOLEAN :
         StoreConversationMemory(m, analysis, ok))
  \/ (\E m \in Published, out \in ExtractionOutputs : ExtractUserMemory(m, out))
  \/ (\E m \in Published, readOk \in BOOLEAN : UpdateUserMemoryRead(m, readOk))
  \/ (\E m \in Published, ok \in BOOLEAN : UpdateUserMemoryUpsert(m, ok))
  \/ (\E m \in Published : SettleProcessed(m))
  \/ (\E m \in Published : AbandonProcessed(m))

SpecMemory == InitMemory /\ [][NextMemory]_vars

\* ------------------------------------------------------------------------
\* History worker: persistence
\* ------------------------------------------------------------------------

\* C21: when the upsert of a processing is throttled on its first k attempts,
\* k < 3, and then succeeds, the processing has not raised, the store holds
\* exactly one history document of the session, and the task settles the
\* message with complete_message: it calls abandon_message only when that
\* call itself failed, and then the message is not completed.
C21_ThrottledThenStoredOnce ==
  \A m \in Published :
    (kind = "history" /\ job[m].upserted) =>
      /\ job[m].attempts \in 1..max_retries
      /\ ~job[m].raised
      /\ Cardinality({ d \in docs : d.sessionId = Req(m).sessionId }) = 1
      /\ pc[m] \in {"abandon", "none"} => <<"complete", "task">> \in calls[m]
      /\ <<"abandon", "task">> \in calls[m]
           => (<<"complete", "task">> \in calls[m] /\ st[m] # "done")

\* Two throttled attempts, the third stored the document, and the message
\* was completed by the one settlement call of its task.
C21_Witness ==
  \E m \in Published :
    /\ kind = "history" /\ job[m].upserted /\ job[m].attempts = 3
    /\ pc[m] = "none" /\ st[m] = "done"
    /\ calls[m] = {<<"complete", "task">>}
    /\ Cardinality({ d \in docs : d.sessionId = Req(m).sessionId }) = 1

\* C22: one delivery makes at most 3 upsert attempts.  A throttling answer
\* to attempt 1 or 2 is followed by another attempt and stores nothing; a
\* throttling answer to attempt 3 and any other store error, on whichever
\* attempt, end the processing with an exception; a processing that raised
\* calls abandon_message, never complete_message.
C22_AtMostThreeAttempts ==
  /\ [](\A m \in Published : job[m].attempts <= max_retries)
  /\ [][\A m \in Published :
          /\ (PersistUpsert(m, "throttled") /\ job[m].attempts < 2)
               => (pc'[m] = "upsert" /\ job'[m].attempts = job[m].attempts + 1
                   /\ ~job'[m].raised /\ docs' = docs)
          /\ (PersistUpsert(m, "throttled") /\ job[m].attempts = 2)
               => (pc'[m] = "settle" /\ job'[m].raised /\ docs' = docs)
          /\ PersistUpsert(m, "error")
               => (pc'[m] = "settle" /\ job'[m].raised /\ docs' = docs)]_vars
  /\ [](\A m \in Published :
          (kind = "history" /\ job[m].raised) =>
            /\ <<"complete", "task">> \notin calls[m]
            /\ st[m] # "done"
            /\ pc[m] = "none" => <<"abandon", "task">> \in calls[m])

\* Three throttled attempts: the processing raised and the message was
\* abandoned.
C22_Witness ==
  \E m \in Published :
    /\ kind = "history" /\ job[m].raised /\ job[m].attempts = 3
    /\ pc[m] = "none" /\ st[m] = "avail"
    /\ calls[m] = {<<"abandon", "task">>}

\* C23: once every completion event of a session has been completed by the
\* history worker and none is being processed, the history document of the
\* session holds the messages of the session's cache entry.
C23_StoreConvergesToCache ==
  \A s \in Sessions :
    ( /\ kind = "history"
      /\ \E m \in Published : Req(m).sessionId = s
      /\ \A m \in Published : Req(m).sessionId = s => (st[m] = "done" /\ pc[m] = "none") )
      => \E d \in docs : d.id = s /\ d.messages = cache[s].messages

\* C28: a failure or an empty result of the title completion does not fail
\* the persistence: the title step never raises, and on a failure or an
\* empty content it sets the title "New Conversation" and goes on to the
\* upsert; a document stored with the fallback title has it, and its message
\* is completed like any other.
C28_TitleFailureDoesNotFailPersistence ==
  /\ [][\A m \in Published : \A out \in TitleOutputs :
          PersistTitle(m, out) =>
            /\ pc'[m] = "upsert" /\ ~job'[m].raised
            /\ (~out.ok \/ out.content = << >>) => job'[m].title = NewConversation]_vars
  /\ [](\A m \in Published :
          (kind = "history" /\ pc[m] = "settle" /\ job[m].upserted)
            => (~job[m].raised /\ \E d \in docs : d.id = Req(m).sessionId))

\* A document stored under the fallback title, its message completed.
C28_Witness ==
  \E m \in Published :
    /\ kind = "history" /\ job[m].upserted /\ st[m] = "done"
    /\ \E d \in docs : d.id = Req(m).sessionId /\ d.title = NewConversation

\* ------------------------------------------------------------------------
\* History worker: the clean-up of a generated title, on its own (SpecTitle)
\* ------------------------------------------------------------------------

\* length up to which every content over TitleAlphabet is tried
MaxShortTitle == 3

TitleAlphabet == {"a", " ", "\"", "'", ":"}

\* The contents the title completion is tried with: every short one, and
\* long ones around the cut at 50 characters.
TitleContents ==
  UNION { [1..n -> TitleAlphabet] : n \in 0..MaxShortTitle }
    \cup { Rep("a", 50), Rep("a", 51),
           Rep("a", 49) \o << " ", "b" >>,
           Rep("a", 50) \o << ":" >>,
           Rep(":", 10) \o Rep("a", 45),
           Rep("a", 45) \o Rep(":", 10) \o Rep("b", 10),
           Rep(" ", 5) \o Rep("a", 48) \o << "\"", "'", "b" >>,
           Rep(":", 60) }

InitTitle ==
  /\ kind = "history"
  /\ AtRest /\ NoTraffic
  /\ StoreIdle
  /\ StreamIdle
  /\ PoolIdle
  /\ completion \in { [ok |-> FALSE, content |-> << >>] }
                      \cup { [ok |-> TRUE, content |-> c] : c \in TitleContents }
  /\ generated_title = << >>

\* generate_conversation_title for a conversation of one turn.
Generate ==
  /\ generated_title = << >>
  /\ generated_title' = GenerateTitle(StoredTurn("s1", "u1"), completion)
  /\ UNCHANGED << kind, MAX_CONCURRENCY, queue, st, cache, completedLog, shutdown, connected,
                  permits, loopPc, cur, pc, loc, ev, calls, late, deliveries, stored,
                  storeVars, streamVars, poolVars, completion >>

NextTitle == Generate

SpecTitle == InitTitle /\ [][NextTitle]_vars

\* C29: a generated title, whatever the completion returned, holds no double
\* quote, no single quote and no colon, and is at most 50 characters long.
C29_TitleIsClean ==
  generated_title # << >> =>
    /\ Len(generated_title) <= 50
    /\ \A i \in 1..Len(generated_title) : generated_title[i] \notin {"\"", "'", ":"}

\* A content of more than 50 characters with quotes and a colon in it was cut
\* to a title of 50.
C29_Witness ==
  /\ completion.ok /\ Len(completion.content) > 50
  /\ \E i \in 1..Len(completion.content) : completion.content[i] \in {"\"", "'", ":"}
  /\ Len(generated_title) = 50

\* ------------------------------------------------------------------------
\* History worker and memory worker: one event processed again (SpecTwice).
\* Every call succeeds; the cache entry and the LLM outputs are those of the
\* first processing.
\* ------------------------------------------------------------------------

\* processings of the event in one run of SpecTwice
MaxProcessings == 2

\* persist_conversation_to_cosmos, when no call fails.
PersistConversation(container, s, conv, out, now) ==
  Upsert(container, HistoryDoc(s, conv, GenerateTitle(conv, out), now))

\* process_completed_message from the analysis on, when no call fails: the
\* conversations container and the user-memories container it leaves.
ProcessCompleted(cm, um, s, u, analysis, updates, now) ==
  << Upsert(cm, ConversationDoc(s, u, analysis, now)),
     IF DOMAIN updates = {} THEN um
     ELSE Upsert(um, ApplyUpdates(ExistingDoc(um, u, TRUE, now), updates, now)) >>

InitTwice ==
  /\ kind \in {"history", "memory"}
  /\ AtRest
  /\ queue = << [sessionId |-> "s1", userId |-> "u1", valid |-> TRUE] >>
  /\ st = [m \in Ids |-> "avail"]
  /\ cache = [s \in Sessions |-> IF s = "s1" THEN StoredTurn("s1", "u1") ELSE NoEntry]
  /\ pc = [m \in Ids |-> "none"]
  /\ calls = [m \in Ids |-> {}]
  /\ deliveries = 0
  /\ docs = {}
  /\ convMem = {}
  /\ StreamIdle
  /\ PoolIdle
  /\ generated_title = << >>
  /\ IF kind = "history"
       THEN /\ completion \in TitleOutputs
            /\ userMem = {}
            /\ job = [m \in Ids |-> NoJob]
       ELSE /\ completion = [ok |-> FALSE, content |-> << >>]
            /\ userMem \in { {} } \cup { { [NewUserDoc("u1", 0) EXCEPT !.fields = r] } :
                                          r \in [MemFields -> Arrays] }
            /\ \E out \in ExtractionOutputs :
                 job = [m \in Ids |-> IF m = 1 THEN [NoJob EXCEPT !.updates = FilterUpdates(out)]
                                      ELSE NoJob]

\* The history worker processes the event, from the read of the cache to the
\* upsert.
ProcessHistoryEvent ==
  /\ kind = "history" /\ deliveries < MaxProcessings
  /\ deliveries' = deliveries + 1
  /\ docs' = PersistConversation(docs, Req(1).sessionId, cache[Req(1).sessionId],
                                 completion, deliveries + 1)
  /\ UNCHANGED << kind, StoreShell, queue, st, cache, pc, calls, job, convMem, userMem >>

\* The memory worker processes the event.
ProcessMemoryEvent ==
  /\ kind = "memory" /\ deliveries < MaxProcessings
  /\ deliveries' = deliveries + 1
  /\ \E analysis \in Analyses :
       LET after == ProcessCompleted(convMem, userMem, Req(1).sessionId, Req(1).userId,
                                     analysis, job[1].updates, deliveries + 1)
       IN convMem' = after[1] /\ userMem' = after[2]
  /\ UNCHANGED << kind, StoreShell, queue, st, cache, pc, calls, job, docs >>

NextTwice == ProcessHistoryEvent \/ ProcessMemoryEvent

SpecTwice == InitTwice /\ [][NextTwice]_vars

\* A container without the timestamps of its documents.
TimelessHistory(container) == { [d EXCEPT !.persistedAt = 0] : d \in container }
TimelessMemory(container) == { [d EXCEPT !.timestamp = 0] : d \in container }

\* C24: processing a completion event again, with the cache entry unchanged
\* and the same LLM outputs, leaves each container with the documents it had
\* after the first processing, timestamps apart: the same ids, the same
\* values of the other fields.
C24_SecondProcessingChangesOnlyTimestamps ==
  [][deliveries >= 1 =>
       /\ TimelessHistory(docs') = TimelessHistory(docs)
       /\ Cardinality(docs') = Cardinality(docs)
       /\ TimelessMemory(convMem') = TimelessMemory(convMem)
       /\ Cardinality(convMem') = Cardinality(convMem)
       /\ TimelessMemory(userMem') = TimelessMemory(userMem)
       /\ Cardinality(userMem') = Cardinality(userMem)]_vars

\* The memory worker has processed the event twice; the user's document
\* carries the extracted field and the time of the second processing.
C24_Witness ==
  /\ kind = "memory" /\ deliveries = 2
  /\ \E d \in userMem : d.timestamp = 2 /\ \E f \in MemFields : d.fields[f] # << >>
  /\ \E d \in convMem : d.timestamp = 2

\* ------------------------------------------------------------------------
\* Memory worker: the user-memory document
\* ------------------------------------------------------------------------

\* C25: the updates handed to update_user_memory are the non-empty arrays the
\* extraction returned, and when its upsert goes through the user's stored
\* document holds, for each field of the updates, exactly the returned
\* array, whatever the field held before.
C25_ReturnedArrayReplacesField ==
  [][\A m \in Published :
       /\ \A out \in ExtractionOutputs :
            ExtractUserMemory(m, out) =>
              \A f \in MemFields :
                (out.ok /\ out.fields[f] # << >>)
                  => (f \in DOMAIN job'[m].updates /\ job'[m].updates[f] = out.fields[f])
       /\ UpdateUserMemoryUpsert(m, TRUE) =>
            \E d \in userMem' :
              /\ d.id = Req(m).userId
              /\ \A f \in DOMAIN job[m].updates : d.fields[f] = job[m].updates[f]]_vars

\* The stored field held one array, the extraction returned another, and the
\* document now holds the returned one alone.
C25_Witness ==
  \E m \in Published : \E f \in MemFields :
    /\ kind = "memory" /\ pc[m] = "settle"
    /\ f \in DOMAIN job[m].updates
    /\ job[m].existing_doc.fields[f] = << "x" >> /\ job[m].updates[f] = << "y" >>
    /\ \E d \in userMem : d.id = Req(m).userId /\ d.fields[f] = << "y" >>

\* C26: the upsert of update_user_memory leaves alone every field of the
\* user's stored document that is not in its updates (the extraction returned
\* it empty): the field keeps the value it had in the store.
C26_OtherFieldsUnchanged ==
  [][\A m \in Published :
       (kind = "memory" /\ pc[m] = "update_upsert" /\ pc'[m] = "settle") =>
         \A d \in userMem : \A f \in MemFields \ DOMAIN job[m].updates :
           d.id = Req(m).userId =>
             \E e \in userMem' : e.id = d.id /\ e.fields[f] = d.fields[f]]_vars

\* ---------------------------------------------------------------------------
\* The reassembly of streamed tool calls (llm_worker, process_message): the
\* chunk loop on its own, over the deltas of one streamed completion.
\* ---------------------------------------------------------------------------

\* the largest number of tool-call deltas in one stream
MaxDeltas == 4

\* the indexes of the tool calls of one completion
ToolIndexes == {0, 1}

\* The text of a fragment of arguments is a sequence of characters.
ArgumentTexts == {<< "a" >>, << "a", "b" >>}

\* The tool calls a completion can carry: every index has an id and the name
\* of the one tool that is offered.
IntendedCalls ==
  UNION { [I -> [id : {"call_A", "call_B"},
                 name : {"search_conversation_history"},
                 arguments : ArgumentTexts]] : I \in (SUBSET ToolIndexes) \ {{}} }

\* One tool-call delta: tool_call.index, tool_call.id (None is ""),
\* tool_call.function (has_function), function.name (None is "") and
\* function.arguments (None is given = FALSE).
ToolCallDelta(i, id, has_function, name, given, text) ==
  [index |-> i, id |-> id, has_function |-> has_function, name |-> name,
   given |-> given, arguments |-> text]

RECURSIVE Splits(_, _)
\* The ways of cutting a text into n consecutive fragments, empty ones included.
Splits(text, n) ==
  IF n = 0 THEN (IF text = << >> THEN {<< >>} ELSE {})
  ELSE UNION { { << SubSeq(text, 1, k) >> \o rest :
                   rest \in Splits(SubSeq(text, k + 1, Len(text)), n - 1) } :
               k \in 0..Len(text) }

\* The ways of streaming one call in n deltas: the arguments cut anywhere, a
\* delta with an empty fragment carrying either "" or no arguments at all, the
\* id in any one delta and the name in any one delta; a delta with neither name
\* nor arguments has no function.
DeltasOfCall(i, call, n) ==
  { [k \in 1..n |->
       ToolCallDelta(i,
                     IF k = at.id THEN call.id ELSE "",
                     k = at.name \/ cut[k] # << >> \/ k \in at.blank,
                     IF k = at.name THEN call.name ELSE "",
                     cut[k] # << >> \/ k \in at.blank,
                     cut[k])] :
      cut \in Splits(call.arguments, n),
      at \in [id : 1..n, name : 1..n, blank : SUBSET (1..n)] }

RECURSIVE Interleavings(_, _)
\* The merges of two delta sequences that keep the order of each.
Interleavings(s, t) ==
  IF s = << >> THEN {t}
  ELSE IF t = << >> THEN {s}
  ELSE { << Head(s) >> \o m : m \in Interleavings(Tail(s), t) }
         \cup { << Head(t) >> \o m : m \in Interleavings(s, Tail(t)) }

\* The delta streams of the calls: each call streamed in at least one delta,
\* the deltas of the indexes interleaved, MaxDeltas deltas at most.
StreamsOf(emitted) ==
  LET OfIndex(i) == UNION { DeltasOfCall(i, emitted[i], n) : n \in 1..(MaxDeltas - 1) }
  IN  IF DOMAIN emitted = {0} THEN { s \in OfIndex(0) : Len(s) <= MaxDeltas }
      ELSE IF DOMAIN emitted = {1} THEN { s \in OfIndex(1) : Len(s) <= MaxDeltas }
      ELSE UNION { IF Len(s) + Len(t) <= MaxDeltas THEN Interleavings(s, t) ELSE {} :
                     s \in OfIndex(0), t \in OfIndex(1) }

\* The chunk loop keeps the arguments of a delta as they come.
AccumulateDelta_Overwrite(acc, tool_call) ==
  LET i == tool_call.index
      known == IF i \in DOMAIN acc THEN acc
               ELSE acc @@ (i :> [id |-> "", index |-> i, name |-> "", arguments |-> << >>])
  IN  [known EXCEPT
         ![i].id = IF tool_call.id # "" THEN tool_call.id ELSE @,
         ![i].name = IF tool_call.has_function /\ tool_call.name # ""
                       THEN tool_call.name ELSE @,
         ![i].arguments = IF tool_call.has_function /\ tool_call.given
                            THEN tool_call.arguments ELSE @]

\* What one delta does to function_calls: the entry of its index is created
\* empty when it is new, the id and the name are set when the delta has them,
\* the arguments are appended when the delta has any.
AccumulateDelta(acc, tool_call) ==
  LET i == tool_call.index
      known == IF i \in DOMAIN acc THEN acc
               ELSE acc @@ (i :> [id |-> "", index |-> i, name |-> "", arguments |-> << >>])
  IN  [known EXCEPT
         ![i].id = IF tool_call.id # "" THEN tool_call.id ELSE @,
         ![i].name = IF tool_call.has_function /\ tool_call.name # ""
                       THEN tool_call.name ELSE @,
         ![i].arguments = IF tool_call.has_function /\ tool_call.given
                            THEN @ \o tool_call.arguments ELSE @]

\* A completion with tool calls starts to stream: nothing is accumulated.
InitTools ==
  /\ kind = "llm"
  /\ AtRest
  /\ NoTraffic
  /\ StoreIdle
  /\ TitleIdle
  /\ PoolIdle
  /\ intended \in IntendedCalls
  /\ stream \in StreamsOf(intended)
  /\ pos = 0
  /\ function_calls = << >>
  /\ toolPc = "idle"
  /\ nextCall = 0
  /\ messages = << >>

\* The chunk loop takes the next tool-call delta.
HandleToolCallDelta ==
  /\ pos < Len(stream)
  /\ function_calls' = AccumulateDelta(function_calls, stream[pos + 1])
  /\ pos' = pos + 1
  /\ UNCHANGED << kind, MAX_CONCURRENCY, queue, st, cache, completedLog, shutdown, connected,
                  permits, loopPc, cur, pc, loc, ev, calls, late, deliveries, stored,
                  storeVars, titleVars, poolVars, intended, stream, toolPc, nextCall, messages >>

NextTools == HandleToolCallDelta

SpecTools == InitTools /\ [][NextTools]_vars

\* C27: when the stream of tool-call deltas has ended, function_calls holds one
\* call per index of the calls the model emitted, and the id, the name and the
\* arguments of each are those of the emitted call, whatever the cuts of the
\* arguments, the interleaving of the indexes and the delta that carried the id.
C27_ReassembledCallsAreIntended ==
  (kind = "llm" /\ intended # << >> /\ pos = Len(stream)) =>
    /\ DOMAIN function_calls = DOMAIN intended
    /\ \A i \in DOMAIN intended :
         /\ function_calls[i].index = i
         /\ function_calls[i].id = intended[i].id
         /\ function_calls[i].name = intended[i].name
         /\ function_calls[i].arguments = intended[i].arguments

\* Two calls streamed in four interleaved deltas, the arguments of the first
\* cut in two, its id arriving in its second delta, all reassembled.
C27_Witness ==
  /\ DOMAIN intended = {0, 1}
  /\ Len(stream) = 4
  /\ pos = 4
  /\ stream[1].index = 0 /\ stream[1].id = "" /\ stream[1].arguments = << "a" >>
  /\ stream[2].index = 1
  /\ stream[3].index = 0 /\ stream[3].id = intended[0].id /\ stream[3].arguments = << "b" >>
  /\ function_calls[0].arguments = << "a", "b" >>
  /\ function_calls[0].id = intended[0].id

\* ---------------------------------------------------------------------------
\* The receive loop and the failures of one message (Spec)
\* ---------------------------------------------------------------------------

\* A step in which the processing of a message raises, or a settlement call of
\* its task (not a cancelled one) fails and leaves the message as it was on the
\* bus.
TaskFailureStep ==
  \E m \in Published :
    \/ loc'[m].raised /\ ~loc[m].raised
    \/ /\ \E op \in {"complete", "abandon"} :
            <<op, "task">> \in calls'[m] /\ pc[m] \in {"settle", "sd_abandon", "abandon"}
       /\ pc'[m] # pc[m] /\ ~loc'[m].cancelled
       /\ st'[m] = st[m]

\* C31: a failure while processing or settling one message never ends the
\* receive loop.  The loop leaves for the drain only once shutdown is signalled;
\* a step in which a processing raises or a settlement call fails leaves the
\* loop, its connection and the message it holds as they are; and the LLM
\* worker's loop never waits for a permit that no running task will give back.
C31_LoopSurvivesMessageFailures ==
  /\ [](loopPc \in {"drain", "stopped"} => shutdown)
  /\ [][TaskFailureStep => UNCHANGED << loopPc, cur, connected, shutdown >>]_vars
  /\ []((loopPc = "acquire" /\ permits = 0) => Holders \cap ActiveTasks # {})

\* The processing of one message raised and its abandon failed as well; the
\* loop, not shut down, has dispatched another message and is at its receive.
C31_Witness ==
  \E a, b \in Published :
    /\ a # b /\ ~shutdown /\ connected
    /\ pc[a] = "finally" /\ loc[a].raised /\ st[a] = "locked"
    /\ <<"abandon", "task">> \in calls[a]
    /\ pc[b] \in {"start", "wait"}
    /\ loopPc = "recv" /\ cur = 0

\* ---------------------------------------------------------------------------
\* The tool loop of the LLM worker (process_message): from the end of a first
\* stream that carried tool calls to the settlement of the turn.  A
\* specification of its own (SpecToolLoop) over the reassembled calls.
\* ---------------------------------------------------------------------------

\* The arguments a reassembled call can carry: none, a well-formed object, a
\* truncated one, JSON that is no object, an object whose search_query is a
\* number, and an object without a search_query.
ArgumentStrings ==
  { "", "{search_query: vacation, limit: 3}", "{search_que", "[]",
    "{search_query: 5}", "{}" }

\* json.loads of the arguments: JSONDecodeError, or the value.
JsonLoads(text) ==
  CASE text = "{search_query: vacation, limit: 3}" ->
         [ok |-> TRUE, dict |-> TRUE, search_query |-> "vacation"]
    [] text = "{search_query: 5}" -> [ok |-> TRUE, dict |-> TRUE, search_query |-> "5 (int)"]
    [] text = "{}" -> [ok |-> TRUE, dict |-> TRUE, search_query |-> ""]
    [] text = "[]" -> [ok |-> TRUE, dict |-> FALSE, search_query |-> ""]
    [] OTHER -> [ok |-> FALSE, dict |-> FALSE, search_query |-> ""]

\* What the Memory API does with a search request.
ApiOutcomes == {"200", "404", "500", "timeout", "error"}

\* search_conversation_history: an empty query is answered at once; the strip
\* of a query that is no string raises; every status, the timeout and every
\* exception of the request give a result with no conversations.
SearchConversationHistory(search_query, api) ==
  IF search_query = "" THEN [raised |-> FALSE, content |-> "empty"]
  ELSE IF search_query = "5 (int)" THEN [raised |-> TRUE, content |-> "-"]
  ELSE IF api = "200" THEN [raised |-> FALSE, content |-> "result"]
  ELSE [raised |-> FALSE, content |-> "empty"]

\* The reassembled calls a first stream can leave: an id or none, the name of
\* the offered tool, another name or none.
ReassembledCalls ==
  UNION { [I -> [id : {"", "call_A"},
                 name : {"", "search_conversation_history", "other_tool"},
                 arguments : ArgumentStrings]] : I \in (SUBSET ToolIndexes) \ {{}} }

\* list(function_calls.values()) once the ids are post-processed: a call
\* without an id gets call_index_{index}.
FunctionCallsList(fcs) ==
  LET WithId(i) == [index |-> i,
                    id |-> IF fcs[i].id = "" THEN << "call_index", i >> ELSE << fcs[i].id, i >>,
                    name |-> fcs[i].name,
                    arguments |-> fcs[i].arguments]
  IN  IF DOMAIN fcs = {0, 1} THEN << WithId(0), WithId(1) >>
      ELSE IF DOMAIN fcs = {0} THEN << WithId(0) >>
      ELSE << WithId(1) >>

\* assistant_tool_calls: the calls with a name.
AssistantToolCalls(list) == SelectSeq(list, LAMBDA c : c.name # "")

AssistantMessage(tcs) ==
  [role |-> "assistant", tool_calls |-> tcs, tool_call_id |-> << >>, content |-> ""]

ToolMessage(id, content) ==
  [role |-> "tool", tool_calls |-> << >>, tool_call_id |-> id, content |-> content]

\* An execution in which a JSONDecodeError of the arguments is not handled.
ToolMessagesFor_ParseErrorRaises(func_call, api) ==
  IF func_call.name # "search_conversation_history" THEN [raised |-> FALSE, msgs |-> << >>]
  ELSE LET args == IF func_call.arguments = ""
                     THEN [ok |-> TRUE, dict |-> TRUE, search_query |-> ""]
                     ELSE JsonLoads(func_call.arguments)
           found == SearchConversationHistory(args.search_query, api)
       IN  IF ~args.ok THEN [raised |-> TRUE, msgs |-> << >>]
           ELSE [raised |-> FALSE,
                 msgs |-> << ToolMessage(func_call.id,
                               IF ~args.dict \/ found.raised THEN "error"
                               ELSE found.content) >>]

\* The execution of one call that has a name: a call of
\* search_conversation_history parses its arguments (none is {}), searches
\* and appends the result; a JSONDecodeError and every other exception append
\* an error message.  A call of another name appends nothing.
ToolMessagesFor(func_call, api) ==
  IF func_call.name # "search_conversation_history" THEN [raised |-> FALSE, msgs |-> << >>]
  ELSE LET args == IF func_call.arguments = ""
                     THEN [ok |-> TRUE, dict |-> TRUE, search_query |-> ""]
                     ELSE JsonLoads(func_call.arguments)
           found == SearchConversationHistory(args.search_query, api)
       IN  [raised |-> FALSE,
            msgs |-> << ToolMessage(func_call.id,
                          IF ~args.ok \/ ~args.dict \/ found.raised THEN "error"
                          ELSE found.content) >>]

\* The first stream has ended and left tool calls.
InitToolLoop ==
  /\ kind = "llm"
  /\ AtRest
  /\ NoTraffic
  /\ StoreIdle
  /\ TitleIdle
  /\ PoolIdle
  /\ intended = << >>
  /\ stream = << >>
  /\ pos = 0
  /\ function_calls \in ReassembledCalls
  /\ toolPc = "post"
  /\ nextCall = 0
  /\ messages = << >>

ToolLoopShell ==
  << kind, MAX_CONCURRENCY, queue, st, cache, completedLog, shutdown, connected,
     permits, loopPc, cur, pc, loc, ev, calls, late, deliveries, stored,
     storeVars, titleVars, poolVars, intended, stream, pos, function_calls >>

\* The ids are post-processed and the calls with a name are collected; with
\* none the tool loop is skipped, else the assistant message is appended.
CollectToolCalls ==
  /\ toolPc = "post"
  /\ LET tcs == AssistantToolCalls(FunctionCallsList(function_calls)) IN
       IF tcs = << >>
         THEN /\ toolPc' = AfterStream("stream2", "none")
              /\ UNCHANGED << nextCall, messages >>
         ELSE /\ toolPc' = "exec"
              /\ nextCall' = 1
              /\ messages' = << AssistantMessage(tcs) >>
  /\ UNCHANGED ToolLoopShell

\* The next call of function_calls_list is executed, or skipped when it has no
\* name; an exception that is not handled leaves process_message.
ExecuteToolCall(api) ==
  /\ toolPc = "exec"
  /\ nextCall <= Len(FunctionCallsList(function_calls))
  /\ LET func_call == FunctionCallsList(function_calls)[nextCall]
         done == IF func_call.name = "" THEN [raised |-> FALSE, msgs |-> << >>]
                 ELSE ToolMessagesFor(func_call, api)
     IN  /\ messages' = messages \o done.msgs
         /\ toolPc' = IF done.raised THEN "raised" ELSE "exec"
         /\ nextCall' = nextCall + 1
  /\ UNCHANGED ToolLoopShell

\* The follow-up completion is requested with the messages and streamed, or
\* the request or a send of one of its tokens raises.
FollowUp(ok) ==
  /\ toolPc = "exec"
  /\ nextCall > Len(FunctionCallsList(function_calls))
  /\ toolPc' = IF ok THEN AfterStream("stream2", "none") ELSE "raised"
  /\ UNCHANGED << ToolLoopShell, nextCall, messages >>

\* The rest of the turn when nothing fails: end of stream, cache update,
\* message-completed, settlement.
TurnStep ==
  /\ toolPc \in {"eos", "upd_get", "upd_set", "publish"}
  /\ toolPc' = AfterStep(toolPc)
  /\ UNCHANGED << ToolLoopShell, nextCall, messages >>

NextToolLoop ==
  \/ CollectToolCalls
  \/ (\E api \in ApiOutcomes : ExecuteToolCall(api))
  \/ (\E ok \in BOOLEAN : FollowUp(ok))
  \/ TurnStep

SpecToolLoop == InitToolLoop /\ [][NextToolLoop]_vars

\* The call the tool loop is about to execute.
CurrentCall == FunctionCallsList(function_calls)[nextCall]

\* The arguments of a call that cannot be searched with: not JSON, no object,
\* or a search_query that is no string.
BadArguments(text) ==
  text # "" /\ (~JsonLoads(text).ok \/ ~JsonLoads(text).dict
                  \/ JsonLoads(text).search_query = "5 (int)")

\* C32: executing a call of search_conversation_history never fails the turn,
\* whatever its arguments and whatever the Memory API does: the step appends
\* one tool message with the id of the call (an error message when the
\* arguments cannot be used, else a result, possibly empty) and goes on with
\* the next call; only the follow-up itself can raise; after the last call the
\* follow-up is issued, and the turn goes on to the end of stream, the cache
\* update, message-completed and the settlement.
C32_ToolFailureDoesNotFailTurn ==
  /\ [][(toolPc = "exec" /\ nextCall' = nextCall + 1
           /\ CurrentCall.name = "search_conversation_history")
          => /\ toolPc' = "exec"
             /\ Len(messages') = Len(messages) + 1
             /\ SubSeq(messages', 1, Len(messages)) = messages
             /\ messages'[Len(messages')].role = "tool"
             /\ messages'[Len(messages')].tool_call_id = CurrentCall.id
             /\ messages'[Len(messages')].content \in {"result", "empty", "error"}
             /\ BadArguments(CurrentCall.arguments)
                  => messages'[Len(messages')].content = "error"]_vars
  /\ [][(toolPc' = "raised" /\ toolPc # "raised")
          => nextCall > Len(FunctionCallsList(function_calls))]_vars
  /\ [][(toolPc = "exec" /\ toolPc' \notin {"exec", "raised"}) => toolPc' = "eos"]_vars
  /\ [][(toolPc = "eos" /\ toolPc' # toolPc) => toolPc' = "upd_get"]_vars
  /\ [][(toolPc = "upd_get" /\ toolPc' # toolPc) => toolPc' = "upd_set"]_vars
  /\ [][(toolPc = "upd_set" /\ toolPc' # toolPc) => toolPc' = "publish"]_vars
  /\ [][(toolPc = "publish" /\ toolPc' # toolPc) => toolPc' = "settle"]_vars

\* A search call with truncated arguments and one whose search found nothing:
\* an error message and an empty result were appended, the follow-up was
\* issued and the turn has reached its settlement.
C32_Witness ==
  /\ toolPc = "settle"
  /\ DOMAIN function_calls = {0, 1}
  /\ function_calls[0].name = "search_conversation_history"
  /\ function_calls[0].arguments = "{search_que"
  /\ function_calls[1].name = "search_conversation_history"
  /\ function_calls[1].arguments = "{search_query: vacation, limit: 3}"
  /\ Len(messages) = 3
  /\ messages[2].role = "tool" /\ messages[2].content = "error"
  /\ messages[3].role = "tool" /\ messages[3].content = "empty"

\* The tool messages that answer the call of that id.
AnswersTo(id) == { i \in DOMAIN messages : messages[i].role = "tool" /\ messages[i].tool_call_id = id }

\* C38: when the follow-up completion is issued, every tool call listed in the
\* assistant message is followed by exactly one tool message with its id,
\* whatever its name and whether its id came from the stream or was made from
\* its index.
C38_EveryToolCallAnswered ==
  (toolPc = "exec" /\ nextCall > Len(FunctionCallsList(function_calls))) =>
    /\ messages # << >>
    /\ messages[1].role = "assistant"
    /\ \A k \in DOMAIN messages[1].tool_calls :
         /\ Cardinality(AnswersTo(messages[1].tool_calls[k].id)) = 1
         /\ \A i \in AnswersTo(messages[1].tool_calls[k].id) : i > 1

\* ---------------------------------------------------------------------------
\* The ingress service (front_service): the pool of bus senders and the chat
\* requests that send through it.  A specification of its own (SpecPool).
\* ---------------------------------------------------------------------------

\* the senders the lifespan puts in the pool (the default of the service is 10)
SERVICEBUS_SENDER_POOL_SIZE == 2

\* concurrent chat requests
MaxRequests == 3

\* how many times a request's connection is used again for a new chat request
MaxRounds == 2

Senders == 1..SERVICEBUS_SENDER_POOL_SIZE

Requests == 1..MaxRequests

NoHandler == [pc |-> "none", sender |-> 0, round |-> 0, result |-> "-"]

\* The senders the handlers hold: taken from the pool and not yet put back.
TakenBy(r) == IF handler[r].pc \in {"lock", "send", "put"} THEN {handler[r].sender} ELSE {}

Range(q) == { q[i] : i \in DOMAIN q }

\* lifespan: the senders are opened and put in the queue, each with a lock.
InitPool ==
  /\ kind = "llm"
  /\ AtRest
  /\ NoTraffic
  /\ StoreIdle
  /\ StreamIdle
  /\ TitleIdle
  /\ sender_pool = [i \in Senders |-> i]
  /\ lock = [s \in Senders |-> 0]
  /\ handler = [r \in Requests |-> NoHandler]

PoolShell ==
  << kind, MAX_CONCURRENCY, queue, st, cache, completedLog, shutdown, connected,
     permits, loopPc, cur, pc, loc, ev, calls, late, deliveries, stored,
     storeVars, streamVars, titleVars >>

\* A chat request arrives and its message is built.
ChatEndpoint(r) ==
  /\ handler[r].pc \in {"none", "done"}
  /\ handler[r].round < MaxRounds
  /\ handler' = [handler EXCEPT ![r] = [pc |-> "get", sender |-> 0,
                                        round |-> @.round + 1, result |-> "-"]]
  /\ UNCHANGED << PoolShell, sender_pool, lock >>

\* sender, lock = await sender_pool.get(): waits while the queue is empty.
PoolGet(r) ==
  /\ handler[r].pc = "get"
  /\ sender_pool # << >>
  /\ handler' = [handler EXCEPT ![r].pc = "lock", ![r].sender = Head(sender_pool)]
  /\ sender_pool' = Tail(sender_pool)
  /\ UNCHANGED << PoolShell, lock >>

\* The request is cancelled while it waits for a sender: it has taken none.
PoolGetCancelled(r) ==
  /\ handler[r].pc = "get"
  /\ handler' = [handler EXCEPT ![r].pc = "done", ![r].result = "cancelled"]
  /\ UNCHANGED << PoolShell, sender_pool, lock >>

\* async with lock: entered once the lock is free.
LockAcquire(r) ==
  /\ handler[r].pc = "lock"
  /\ lock[handler[r].sender] = 0
  /\ lock' = [lock EXCEPT ![handler[r].sender] = r]
  /\ handler' = [handler EXCEPT ![r].pc = "send"]
  /\ UNCHANGED << PoolShell, sender_pool >>

\* A handler that puts its sender back only after a send that succeeded.
ReturnsSender_OnlyWhenSent(outcome) == outcome = "sent"

\* finally: the sender goes back whatever the send did.
ReturnsSender(outcome) == TRUE

\* await sender.send_messages ends (sent, an exception, or the cancellation of
\* the request): the lock is released on the way out of "async with".
SendMessages(r, outcome) ==
  /\ handler[r].pc = "send"
  /\ lock' = [lock EXCEPT ![handler[r].sender] = 0]
  /\ handler' = [handler EXCEPT ![r].pc = IF ReturnsSender(outcome) THEN "put" ELSE "done",
                                ![r].result = outcome]
  /\ UNCHANGED << PoolShell, sender_pool >>

\* await sender_pool.put((sender, lock)): the queue is unbounded, the put does
\* not wait; then the response, or the HTTP 500 of the handler.
PoolPut(r) ==
  /\ handler[r].pc = "put"
  /\ sender_pool' = Append(sender_pool, handler[r].sender)
  /\ handler' = [handler EXCEPT ![r].pc = "done", ![r].sender = 0]
  /\ UNCHANGED << PoolShell, lock >>

NextPool ==
  \/ (\E r \in Requests : ChatEndpoint(r))
  \/ (\E r \in Requests : PoolGet(r))
  \/ (\E r \in Requests : PoolGetCancelled(r))
  \/ (\E r \in Requests : LockAcquire(r))
  \/ (\E r \in Requests, outcome \in {"sent", "error", "cancelled"} : SendMessages(r, outcome))
  \/ (\E r \in Requests : PoolPut(r))

SpecPool == InitPool /\ [][NextPool]_vars

\* C33: every pooled sender has at most one send in flight, under its own
\* lock; and every sender is either in the pool, once, or held by exactly one
\* request that has taken it and not yet put it back, so that when no request
\* is under way the pool holds every sender again, after failed sends too.
C33_PoolKeepsItsSenders ==
  /\ \A s \in Senders :
       /\ Cardinality({ r \in Requests : handler[r].pc = "send" /\ handler[r].sender = s }) <= 1
       /\ \A r \in Requests :
            (handler[r].pc = "send" /\ handler[r].sender = s) <=> lock[s] = r
  /\ \A s \in Senders :
       Cardinality({ i \in DOMAIN sender_pool : sender_pool[i] = s })
         + Cardinality({ r \in Requests : s \in TakenBy(r) }) = 1
  /\ (\A r \in Requests : handler[r].pc \in {"none", "done", "get"})
       => Range(sender_pool) = Senders

\* Every request has ended, one of them after a send that failed and one
\* after a cancelled send, and the pool holds both senders.
C33_Witness ==
  /\ \A r \in Requests : handler[r].pc = "done"
  /\ \E r \in Requests : handler[r].result = "error"
  /\ \E r \in Requests : handler[r].result = "cancelled" /\ handler[r].round = 2
  /\ Len(sender_pool) = SERVICEBUS_SENDER_POOL_SIZE

\* ---------------------------------------------------------------------------
\* The owner of a cache entry (Spec)
\* ---------------------------------------------------------------------------

\* C34: in every cache entry, every user and assistant message comes from a
\* request of the user the entry is stored for; a request of another user on
\* the session adds nothing to the entry.
C34_EntryHoldsOnlyItsOwnersTurns ==
  \A s \in Sessions :
    (kind = "llm" /\ cache[s].present) =>
      \A i \in DOMAIN cache[s].messages :
        cache[s].messages[i].role \in {"user", "assistant"}
          => cache[s].messages[i].u = cache[s].userId

\* ---------------------------------------------------------------------------
\* Whose conversation the memory worker stores (SpecOwner): the chat turns of
\* the LLM worker as the environment, the memory worker processing each
\* completion event in one step, every call succeeding.
\* ---------------------------------------------------------------------------

\* extract_conversation_summary: the analysis is made of the messages of the
\* conversation read from the cache, here marked with the user the cache
\* entry is stored for.
AnalysisOf(conv) == [summary |-> "A1", of |-> conv.userId]

\* extract_user_memory_updates: the items of the updates are taken from the
\* same conversation.
UpdatesOf(conv, out) ==
  [f \in DOMAIN FilterUpdates(out) |->
     [i \in DOMAIN FilterUpdates(out)[f] |-> << FilterUpdates(out)[f][i], conv.userId >>]]

InitOwner ==
  /\ kind = "memory"
  /\ AtRest /\ NoTraffic
  /\ StoreIdle
  /\ StreamIdle
  /\ TitleIdle
  /\ PoolIdle

\* The LLM worker ends a turn of any user on a session: the cache entry is
\* updated and the completion event published with the userId of the request.
ChatTurn ==
  /\ Len(queue) < MaxDeliveries
  /\ \E r \in { x \in ShapesAt(Len(queue) + 1) : x.valid } :
       /\ queue' = Append(queue, r)
       /\ cache' = [cache EXCEPT ![r.sessionId] =
                      UpdateConversation(@, Len(queue) + 1, r.userId, TRUE)]
  /\ UNCHANGED << kind, StoreShell, st, pc, calls, deliveries, storeVars >>

\* The memory worker processes a completion event and completes it: it takes
\* the conversation of the session as the cache holds it, and does not compare
\* the userId of the event with the conversation's.
ProcessCompletedMessage(m, out) ==
  /\ st[m] = "avail"
  /\ deliveries < MaxDeliveries
  /\ deliveries' = deliveries + 1
  /\ LET conv == cache[Req(m).sessionId]
         after == ProcessCompleted(convMem, userMem, Req(m).sessionId, Req(m).userId,
                                   AnalysisOf(conv), UpdatesOf(conv, out), deliveries + 1)
     IN  IF ProcessOutcome(kind, Req(m), conv) = "store"
           THEN convMem' = after[1] /\ userMem' = after[2]
           ELSE UNCHANGED << convMem, userMem >>
  /\ st' = [st EXCEPT ![m] = "done"]
  /\ UNCHANGED << kind, StoreShell, queue, cache, pc, calls, job, docs >>

NextOwner ==
  \/ ChatTurn
  \/ (\E m \in Published, out \in ExtractionOutputs : ProcessCompletedMessage(m, out))

SpecOwner == InitOwner /\ [][NextOwner]_vars

\* C35: every conversation-memory document stored under a userId was made
\* from a conversation that the cache holds for that user, and so was every
\* item of that user's memory document.
C35_MemoryOnlyFromOwnConversation ==
  /\ \A d \in convMem : d.summary.of = d.userId
  /\ \A d \in userMem : \A f \in MemFields : \A i \in DOMAIN d.fields[f] :
       d.fields[f][i][2] = d.userId

\* ---------------------------------------------------------------------------
\* Two memory-worker tasks of one user (SpecMemory)
\* ---------------------------------------------------------------------------

\* The user-memory document of u holds the updates in their fields.
HoldsUpdates(container, u, updates) ==
  \E d \in container : d.id = u /\ \A f \in DOMAIN updates : d.fields[f] = updates[f]

\* C36: when the task of one event upserts the user-memory document while the
\* task of an event of another session of the same user, which has updated
\* other fields of it, is still under way, the document holds the updates of
\* both afterwards: the read-then-upsert of the second never loses the update
\* of the first.
C36_ConcurrentUpdatesBothKept ==
  [][\A a, b \in Published :
       ( /\ kind = "memory" /\ a # b
         /\ Req(a).userId = Req(b).userId /\ Req(a).sessionId # Req(b).sessionId
         /\ pc[a] = "settle" /\ DOMAIN job[a].updates # {}
         /\ HoldsUpdates(userMem, Req(a).userId, job[a].updates)
         /\ pc[b] = "update_upsert" /\ pc'[b] = "settle"
         /\ DOMAIN job[b].updates \cap DOMAIN job[a].updates = {}
         /\ userMem' # userMem )
       => /\ HoldsUpdates(userMem', Req(a).userId, job[a].updates)
          /\ HoldsUpdates(userMem', Req(b).userId, job[b].updates)]_vars

\* ---------------------------------------------------------------------------
\* The title of a stored conversation (SpecStore)
\* ---------------------------------------------------------------------------

\* C37: once the history document of a session has a title, an upsert of the
\* history worker for that session leaves the title as it is.
C37_StoredTitleIsKept ==
  [][\A d \in docs : \A e \in docs' :
       (kind = "history" /\ e.id = d.id /\ d.title # << >>) => e.title = d.title]_vars

\* ---------------------------------------------------------------------------
\* A task in flight across a reconnect of the LLM worker (Spec)
\* ---------------------------------------------------------------------------

\* C39: in the LLM worker, with no shutdown signalled, a task that was in
\* flight when the receive loop lost its connection (the receiver it was given
\* is closed) and whose processing has succeeded has completed its message
\* when it leaves.
C39_InFlightTaskSettlesAfterReconnect ==
  \A m \in Published :
    ( /\ kind = "llm" /\ ~shutdown
      /\ Req(m).valid
      /\ loc[m].stale /\ ~loc[m].raised /\ ~loc[m].cancelled
      /\ pc[m] = "finally" )
    => st[m] = "done"
====
